---- MODULE Spec2Model ----
(***************************************************************************)
(* Multi-algorithm key / signature types of core/crypto (signature.rs,     *)
(* test_utils.rs, signer.rs, key_file.rs): KeyType, PublicKey, SecretKey,  *)
(* Signature, InMemorySigner and KeyFile,                                  *)
(* their text codec ("<algorithm>:<base58>"), their binary codec (one      *)
(* discriminant byte, then the fixed-length payload), sign and verify.     *)
(*                                                                         *)
(* Bytes are naturals 0..255, byte buffers are sequences of bytes at the   *)
(* lengths the source uses, text is a sequence of ASCII codes.  A result   *)
(* is a record whose tag is "Ok", "Err" or "Panic" (an unwrap, expect,     *)
(* panic! or unimplemented! that fires).                                   *)
(***************************************************************************)
EXTENDS Integers, Sequences, FiniteSets, TLC

VARIABLES sk, pk, sig, signer, os_rng, last, SECP256K1, threads

vars == <<sk, pk, sig, signer, os_rng, last, SECP256K1, threads>>

-----------------------------------------------------------------------------
(* Bounds of the model. *)

\* how many byte values a generated buffer may end in (taken from TailPool)
NumTailBytes == 2
\* how many seed strings from_seed is tried with (taken from SeedPool)
NumSeeds == 2
\* how many threads use SECP256K1 values at the same time
NumThreads == 3

-----------------------------------------------------------------------------
(* Byte buffers and text. *)

Zeros(n) == [i \in 1..n |-> 0]

\* the buffer of n bytes that is zero except for the trailing bytes `tail`
Buf(n, tail) == Zeros(n - Len(tail)) \o tail

Reverse(s) == [i \in 1..Len(s) |-> s[Len(s) + 1 - i]]

\* number of leading elements of s equal to x
LeadingCount(s, x) ==
    LET other == {i \in 1..Len(s) : s[i] # x}
    IN  IF other = {} THEN Len(s)
        ELSE (CHOOSE i \in other : \A j \in other : i <= j) - 1

\* big-endian comparison of two buffers of the same length, as U256 compares
LessThan(a, b) ==
    \E i \in 1..Len(a) : a[i] < b[i] /\ \A j \in 1..(i - 1) : a[j] = b[j]

Ok(v) == [tag |-> "Ok", val |-> v]
Panic(why) == [tag |-> "Panic", message |-> why]
InvalidLength(e, r) ==
    [tag |-> "Err", kind |-> "InvalidLength", expected_length |-> e, received_length |-> r]
InvalidData(msg) == [tag |-> "Err", kind |-> "InvalidData", error_message |-> msg]
UnknownKeyType(t) == [tag |-> "Err", kind |-> "UnknownKeyType", unknown_key_type |-> t]

-----------------------------------------------------------------------------
(* base58 (the bs58 crate with the Bitcoin alphabet), digit by digit. *)

\* "123456789ABCDEFGHJKLMNPQRSTUVWXYZabcdefghijkmnopqrstuvwxyz"
Bs58Alphabet ==
    <<49, 50, 51, 52, 53, 54, 55, 56, 57,
      65, 66, 67, 68, 69, 70, 71, 72, 74, 75, 76, 77, 78,
      80, 81, 82, 83, 84, 85, 86, 87, 88, 89, 90,
      97, 98, 99, 100, 101, 102, 103, 104, 105, 106, 107,
      109, 110, 111, 112, 113, 114, 115, 116, 117, 118, 119, 120, 121, 122>>

RECURSIVE Bs58Carry(_, _, _)
\* bs58 encode_into, first inner loop over the digits lo..hi written so far
\* (least significant first): carry += digit << 8; digit = carry % 58;
\* carry /= 58.  st = [d |-> digits, c |-> carry].  The range is halved so
\* that the evaluation stays shallow; the steps are taken in order.
Bs58Carry(st, lo, hi) ==
    IF lo > hi THEN st
    ELSE IF lo = hi
    THEN LET c == st.c + st.d[lo] * 256
         IN  [d |-> [st.d EXCEPT ![lo] = c % 58], c |-> c \div 58]
    ELSE LET mid  == (lo + hi) \div 2
             left == Bs58Carry(st, lo, mid)
         IN  IF left.c >= 0 THEN Bs58Carry(left, mid + 1, hi) ELSE left

RECURSIVE Bs58Push(_, _)
\* second inner loop: while carry > 0 { push carry % 58; carry /= 58 }
Bs58Push(digits, carry) ==
    IF carry > 0 THEN Bs58Push(Append(digits, carry % 58), carry \div 58)
    ELSE digits

RECURSIVE Bs58Digits(_, _, _, _)
\* the outer loop over the input bytes lo..hi
Bs58Digits(input, digits, lo, hi) ==
    IF lo > hi THEN digits
    ELSE IF lo = hi
    THEN LET st == Bs58Carry([d |-> digits, c |-> input[lo]], 1, Len(digits))
         IN  Bs58Push(st.d, st.c)
    ELSE LET mid  == (lo + hi) \div 2
             left == Bs58Digits(input, digits, lo, mid)
         IN  IF Len(left) >= 0 THEN Bs58Digits(input, left, mid + 1, hi) ELSE left

\* bs58::encode(bytes).into_string(): leading zero bytes give leading '1's
Bs58Encode(bytes) ==
    LET z      == LeadingCount(bytes, 0)
        digits == Bs58Digits(bytes, <<>>, z + 1, Len(bytes))
    IN  [i \in 1..z |-> Bs58Alphabet[1]]
        \o [i \in 1..Len(digits) |-> Bs58Alphabet[digits[Len(digits) + 1 - i] + 1]]

\* value of a base58 character, 255 when it is not in the alphabet
Bs58Value(c) ==
    IF \E v \in 1..58 : Bs58Alphabet[v] = c
    THEN (CHOOSE v \in 1..58 : Bs58Alphabet[v] = c) - 1
    ELSE 255

RECURSIVE Bs58Mul(_, _, _)
\* bs58 decode_into, first inner loop over the bytes lo..hi written so far
\* (least significant first): val += byte * 58; byte = val & 0xff; val >>= 8.
\* st = [o |-> bytes, v |-> val]
Bs58Mul(st, lo, hi) ==
    IF lo > hi THEN st
    ELSE IF lo = hi
    THEN LET v == st.v + st.o[lo] * 58
         IN  [o |-> [st.o EXCEPT ![lo] = v % 256], v |-> v \div 256]
    ELSE LET mid  == (lo + hi) \div 2
             left == Bs58Mul(st, lo, mid)
         IN  IF left.v >= 0 THEN Bs58Mul(left, mid + 1, hi) ELSE left

RECURSIVE Bs58Grow(_, _, _)
\* second inner loop: while val > 0 { *output.get_mut(index)? = val & 0xff;
\* index += 1; val >>= 8 }, BufferTooSmall past the end of the buffer
Bs58Grow(out, val, cap) ==
    IF val = 0 THEN Ok(out)
    ELSE IF Len(out) >= cap THEN InvalidData("BufferTooSmall")
    ELSE Bs58Grow(Append(out, val % 256), val \div 256, cap)

\* one character of the input
Bs58Char(out, c, cap) ==
    IF c > 127 THEN InvalidData("NonAsciiCharacter")
    ELSE IF Bs58Value(c) = 255 THEN InvalidData("InvalidCharacter")
    ELSE LET st == Bs58Mul([o |-> out, v |-> Bs58Value(c)], 1, Len(out))
         IN  Bs58Grow(st.o, st.v, cap)

RECURSIVE Bs58Bytes(_, _, _, _, _)
\* the outer loop over the characters lo..hi; r is the result so far
Bs58Bytes(text, r, lo, hi, cap) ==
    IF lo > hi \/ r.tag # "Ok" THEN r
    ELSE IF lo = hi THEN Bs58Char(r.val, text[lo], cap)
    ELSE LET mid  == (lo + hi) \div 2
             left == Bs58Bytes(text, r, lo, mid, cap)
         IN  IF left.tag = "Ok" THEN Bs58Bytes(text, left, mid + 1, hi, cap) ELSE left

\* bs58::decode(text).into(&mut array) with an array of cap bytes: the bytes
\* written (the code reads their number), or the decoder's error.  A leading
\* '1' leaves the loop's state as it is and adds one zero byte at the end.
Bs58DecodeInto(text, cap) ==
    LET ones == LeadingCount(text, Bs58Alphabet[1])
        r    == Bs58Bytes(text, Ok(<<>>), ones + 1, Len(text), cap)
    IN  IF r.tag # "Ok" THEN r
        ELSE IF Len(r.val) + ones > cap THEN InvalidData("BufferTooSmall")
        ELSE Ok(Zeros(ones) \o Reverse(r.val))

-----------------------------------------------------------------------------
(* Fixed lengths. *)

\* ed25519_dalek::PUBLIC_KEY_LENGTH, SECRET_KEY_LENGTH, KEYPAIR_LENGTH,
\* SIGNATURE_LENGTH
PUBLIC_KEY_LENGTH == 32
SECRET_KEY_LENGTH == 32
KEYPAIR_LENGTH == 64
SIGNATURE_LENGTH == 64
\* Secp256K1PublicKey([u8; 64]), secp256k1::constants::SECRET_KEY_SIZE
SECP256K1_PUBLIC_KEY_LENGTH == 64
SECRET_KEY_SIZE == 32
SECP256K1_SIGNATURE_LENGTH == 65
\* near_falcon512::NEAR_FALCON512_PUBKEY_SIZE, _PRIVKEY_SIZE, _SIG_SIZE (the
\* lengths of the payloads the tests of signature.rs expect)
NEAR_FALCON512_PUBKEY_SIZE == 897
NEAR_FALCON512_PRIVKEY_SIZE == 1281
NEAR_FALCON512_SIG_SIZE == 666

\* SECP256K1_N, most significant byte first
SECP256K1_N ==
    <<255, 255, 255, 255, 255, 255, 255, 255, 255, 255, 255, 255, 255, 255, 255, 254,
      186, 174, 220, 230, 175, 72, 160, 59, 191, 210, 94, 140, 208, 54, 65, 65>>

\* SECP256K1_N_HALF_ONE, most significant byte first
SECP256K1_N_HALF_ONE ==
    <<127, 255, 255, 255, 255, 255, 255, 255, 255, 255, 255, 255, 255, 255, 255, 255,
      93, 87, 110, 115, 87, 164, 80, 29, 223, 233, 47, 70, 104, 27, 32, 161>>

-----------------------------------------------------------------------------
(* KeyType. *)

KeyTypes == {"ED25519", "SECP256K1", "FALCON512"}

\* enum KeyType { ED25519 = 0, SECP256K1 = 1, FALCON512 = 2 }
KeyTypeDiscriminant(t) ==
    CASE t = "ED25519" -> 0
      [] t = "SECP256K1" -> 1
      [] t = "FALCON512" -> 2

\* Display for KeyType: "ed25519", "secp256k1", "falcon512"
KeyTypeToString(t) ==
    CASE t = "ED25519" -> <<101, 100, 50, 53, 53, 49, 57>>
      [] t = "SECP256K1" -> <<115, 101, 99, 112, 50, 53, 54, 107, 49>>
      [] t = "FALCON512" -> <<102, 97, 108, 99, 111, 110, 53, 49, 50>>

\* str::to_ascii_lowercase
ToAsciiLowercase(s) ==
    [i \in 1..Len(s) |-> IF s[i] >= 65 /\ s[i] <= 90 THEN s[i] + 32 ELSE s[i]]

\* FromStr for KeyType with the error built from the text as it was given
KeyTypeFromStrVerbatim(value) ==
    LET lowercase_key_type == ToAsciiLowercase(value)
    IN  CASE lowercase_key_type = <<101, 100, 50, 53, 53, 49, 57>> -> Ok("ED25519")
          [] lowercase_key_type = <<115, 101, 99, 112, 50, 53, 54, 107, 49>> -> Ok("SECP256K1")
          [] lowercase_key_type = <<102, 97, 108, 99, 111, 110, 53, 49, 50>> -> Ok("FALCON512")
          [] OTHER -> UnknownKeyType(value)

\* FromStr for KeyType
KeyTypeFromStr(value) ==
    LET lowercase_key_type == ToAsciiLowercase(value)
    IN  CASE lowercase_key_type = <<101, 100, 50, 53, 53, 49, 57>> -> Ok("ED25519")
          [] lowercase_key_type = <<115, 101, 99, 112, 50, 53, 54, 107, 49>> -> Ok("SECP256K1")
          [] lowercase_key_type = <<102, 97, 108, 99, 111, 110, 53, 49, 50>> -> Ok("FALCON512")
          [] OTHER -> UnknownKeyType(lowercase_key_type)

\* u8::to_string: the decimal digits, most significant first, no leading zero
U8ToString(n) ==
    IF n >= 100 THEN <<48 + (n \div 100), 48 + ((n \div 10) % 10), 48 + (n % 10)>>
    ELSE IF n >= 10 THEN <<48 + (n \div 10), 48 + (n % 10)>>
    ELSE <<48 + n>>

\* a conversion with the discriminants of SECP256K1 and FALCON512 exchanged
KeyTypeTryFromExchanged(value) ==
    CASE value = 0 -> Ok("ED25519")
      [] value = 1 -> Ok("FALCON512")
      [] value = 2 -> Ok("SECP256K1")
      [] OTHER -> UnknownKeyType(U8ToString(value))

\* TryFrom<u8> for KeyType
KeyTypeTryFrom(value) ==
    CASE value = 0 -> Ok("ED25519")
      [] value = 1 -> Ok("SECP256K1")
      [] value = 2 -> Ok("FALCON512")
      [] OTHER -> UnknownKeyType(U8ToString(value))

\* ':'
Colon == 58

\* the index of the last colon, 0 when there is none
FindColonLast(value) ==
    LET at == {i \in 1..Len(value) : value[i] = Colon}
    IN  IF at = {} THEN 0 ELSE CHOOSE i \in at : \A j \in at : i >= j

\* str::find(':'): the index of the first colon, 0 when there is none
FindColon(value) ==
    LET at == {i \in 1..Len(value) : value[i] = Colon}
    IN  IF at = {} THEN 0 ELSE CHOOSE i \in at : \A j \in at : i <= j

\* a split that refuses a text without a colon
split_key_type_data_prefixed(value) ==
    LET idx == FindColon(value)
    IN  IF idx # 0
        THEN LET t == KeyTypeFromStr(SubSeq(value, 1, idx - 1))
             IN  IF t.tag = "Ok"
                 THEN Ok([key_type |-> t.val, key_data |-> SubSeq(value, idx + 1, Len(value))])
                 ELSE t
        ELSE UnknownKeyType(<<>>)

\* split_key_type_data: the key type named before the first colon and the
\* text after it; without a colon, ED25519 and the whole text
split_key_type_data(value) ==
    LET idx == FindColon(value)
    IN  IF idx # 0
        THEN LET t == KeyTypeFromStr(SubSeq(value, 1, idx - 1))
             IN  IF t.tag = "Ok"
                 THEN Ok([key_type |-> t.val, key_data |-> SubSeq(value, idx + 1, Len(value))])
                 ELSE t
        ELSE Ok([key_type |-> "ED25519", key_data |-> value])

-----------------------------------------------------------------------------
(* The field of curve25519, GF(2^255 - 19): what ed25519_dalek's             *)
(* CompressedEdwardsY::decompress computes to decide whether 32 bytes are a  *)
(* point of the curve.  A field element is 11 limbs of 24 bits, the lowest   *)
(* first.                                                                    *)

\* the prime 2^255 - 19
FeP == <<16777197, 16777215, 16777215, 16777215, 16777215, 16777215,
         16777215, 16777215, 16777215, 16777215, 32767>>

\* the curve constant d = -121665/121666
FeD == <<5863587, 5098003, 11236843, 4276696, 7342669, 15243264,
         7960441, 9226048, 7339635, 7138859, 20995>>

FeZero == [i \in 1..11 |-> 0]
FeOne == [i \in 1..11 |-> IF i = 1 THEN 1 ELSE 0]

\* a < b as numbers
FeLess(a, b) == \E i \in 1..11 : a[i] < b[i] /\ \A j \in (i + 1)..11 : a[j] = b[j]

\* a + b, limb by limb with the carry
RECURSIVE FeAddFrom(_, _, _, _)
FeAddFrom(a, b, i, carry) ==
    IF i > 11 THEN <<>>
    ELSE LET s == a[i] + b[i] + carry
         IN  <<s % 16777216>> \o FeAddFrom(a, b, i + 1, s \div 16777216)

\* a - b for a >= b, limb by limb with the borrow
RECURSIVE FeSubFrom(_, _, _, _)
FeSubFrom(a, b, i, borrow) ==
    IF i > 11 THEN <<>>
    ELSE LET s == a[i] - b[i] - borrow
         IN  <<s % 16777216>> \o FeSubFrom(a, b, i + 1, IF s < 0 THEN 1 ELSE 0)

\* a value below 2p brought below p
FeReduce(a) == IF FeLess(a, FeP) THEN a ELSE FeSubFrom(a, FeP, 1, 0)

\* a + b and a - b modulo p, for a and b below p
FeAdd(a, b) == FeReduce(FeAddFrom(a, b, 1, 0))
FeSub(a, b) ==
    IF FeLess(a, b) THEN FeSubFrom(FeAddFrom(a, FeP, 1, 0), b, 1, 0)
    ELSE FeSubFrom(a, b, 1, 0)

\* a / 2 for an even a
FeHalf(a) ==
    [i \in 1..11 |-> (a[i] \div 2) + (IF i < 11 THEN (a[i + 1] % 2) * 8388608 ELSE 0)]

\* bit k (from 0) of a
FeBit(a, k) == (a[(k \div 24) + 1] \div (2 ^ (k % 24))) % 2

\* one step of a * b modulo p: the bits of b from the highest, doubling and
\* adding
FeMulStep(a, b, s) ==
    [acc |-> IF FeBit(b, s.k) = 1 THEN FeAdd(FeAdd(s.acc, s.acc), a)
             ELSE FeAdd(s.acc, s.acc),
     k   |-> s.k - 1]

\* 2^j steps
RECURSIVE FeMulSteps(_, _, _, _)
FeMulSteps(a, b, s, j) ==
    IF s.k < 0 THEN s
    ELSE IF j = 0 THEN FeMulStep(a, b, s)
    ELSE FeMulSteps(a, b, FeMulSteps(a, b, s, j - 1), j - 1)

\* a * b modulo p
FeMul(a, b) == FeMulSteps(a, b, [acc |-> FeZero, k |-> 254], 8).acc

\* FieldElement::from_bytes: the 255 low bits, little-endian, modulo p
FeFromBytes(bytes) ==
    FeReduce([i \in 1..11 |->
                 IF i < 11
                 THEN bytes[3 * i - 2] + 256 * bytes[3 * i - 1] + 65536 * bytes[3 * i]
                 ELSE bytes[31] + 256 * (bytes[32] % 128)])

\* one step of the Jacobi symbol (a / n) for an odd n, sign kept in t
FeJacobiStep(s) ==
    IF s.a = FeZero THEN s
    ELSE IF s.a[1] % 2 = 0
         THEN [a |-> FeHalf(s.a), n |-> s.n,
               t |-> IF s.n[1] % 8 \in {3, 5} THEN 0 - s.t ELSE s.t]
    ELSE IF FeLess(s.a, s.n)
         THEN [a |-> s.n, n |-> s.a,
               t |-> IF s.a[1] % 4 = 3 /\ s.n[1] % 4 = 3 THEN 0 - s.t ELSE s.t]
    ELSE [a |-> FeSubFrom(s.a, s.n, 1, 0), n |-> s.n, t |-> s.t]

\* 2^k steps
RECURSIVE FeJacobiSteps(_, _)
FeJacobiSteps(s, k) ==
    IF s.a = FeZero THEN s
    ELSE IF k = 0 THEN FeJacobiStep(s)
    ELSE FeJacobiSteps(FeJacobiSteps(s, k - 1), k - 1)

\* a is a square modulo p
FeIsSquare(a) ==
    a = FeZero \/ FeJacobiSteps([a |-> a, n |-> FeP, t |-> 1], 11).t = 1

\* CompressedEdwardsY::decompress succeeds: with y the encoded coordinate,
\* (y^2 - 1) / (d y^2 + 1) is a square, which it is exactly when
\* (y^2 - 1) (d y^2 + 1) is one
Ed25519Decompresses(bytes) ==
    LET YY == FeMul(FeFromBytes(bytes), FeFromBytes(bytes))
    IN  FeIsSquare(FeMul(FeSub(YY, FeOne), FeAdd(FeMul(FeD, YY), FeOne)))

-----------------------------------------------------------------------------
(* rand's StdRng, the ChaCha stream cipher with 12 rounds keyed by the      *)
(* 32-byte seed.  A 32-bit word is [lo, hi], its two 16-bit halves.          *)

\* a xor b on n bits
RECURSIVE XorBits(_, _, _)
XorBits(a, b, n) ==
    IF n = 0 THEN 0 ELSE ((a + b) % 2) + 2 * XorBits(a \div 2, b \div 2, n - 1)

\* u32 ^ u32
WordXor(x, y) == [lo |-> XorBits(x.lo, y.lo, 16), hi |-> XorBits(x.hi, y.hi, 16)]

\* u32::wrapping_add
WordAdd(x, y) ==
    [lo |-> (x.lo + y.lo) % 65536,
     hi |-> (x.hi + y.hi + ((x.lo + y.lo) \div 65536)) % 65536]

\* u32::rotate_left(n) for n in 1..16
WordRotl(x, n) ==
    [lo |-> ((x.lo % (2 ^ (16 - n))) * (2 ^ n)) + (x.hi \div (2 ^ (16 - n))),
     hi |-> ((x.hi % (2 ^ (16 - n))) * (2 ^ n)) + (x.lo \div (2 ^ (16 - n)))]

\* u32::from_le_bytes of the four bytes from position i
WordFromBytes(bytes, i) ==
    [lo |-> bytes[i] + 256 * bytes[i + 1], hi |-> bytes[i + 2] + 256 * bytes[i + 3]]

\* u32::to_le_bytes
WordToBytes(x) == <<x.lo % 256, x.lo \div 256, x.hi % 256, x.hi \div 256>>

\* half of a quarter round: a += b; d = (d ^ a) <<< n
ChaChaHalf(w, a, b, d, n) ==
    [w EXCEPT ![a] = WordAdd(w[a], w[b]),
              ![d] = WordRotl(WordXor(w[d], WordAdd(w[a], w[b])), n)]

\* the quarter round on the words a, b, c, d
ChaChaQuarter(w, a, b, c, d) ==
    ChaChaHalf(ChaChaHalf(ChaChaHalf(ChaChaHalf(w, a, b, d, 16), c, d, b, 12), a, b, d, 8),
               c, d, b, 7)

\* quarter round i (from 0): four down the columns, then four
\* down the diagonals, in turn
ChaChaStep(s) ==
    LET q == s.i % 4
    IN  [w |-> IF (s.i \div 4) % 2 = 0
               THEN ChaChaQuarter(s.w, q + 1, q + 5, q + 9, q + 13)
               ELSE ChaChaQuarter(s.w, q + 1, ((q + 1) % 4) + 5, ((q + 2) % 4) + 9,
                                  ((q + 3) % 4) + 13),
         i |-> s.i + 1]

\* 2^j quarter rounds, none after the n-th
RECURSIVE ChaChaSteps(_, _, _)
ChaChaSteps(s, j, n) ==
    IF s.i >= n THEN s
    ELSE IF j = 0 THEN ChaChaStep(s)
    ELSE ChaChaSteps(ChaChaSteps(s, j - 1, n), j - 1, n)

\* the cipher's input block: "expand 32-byte k", the key, the block counter
\* and a zero stream number
ChaChaInput(key, counter) ==
    << [lo |-> 30821, hi |-> 24944], [lo |-> 25710, hi |-> 13088],
       [lo |-> 11570, hi |-> 31074], [lo |-> 25972, hi |-> 27424] >>
    \o [j \in 1..8 |-> WordFromBytes(key, 4 * j - 3)]
    \o << [lo |-> counter, hi |-> 0], [lo |-> 0, hi |-> 0],
          [lo |-> 0, hi |-> 0], [lo |-> 0, hi |-> 0] >>

\* 20 rounds on an input block, the StdRng of rand 0.7
ChaCha20Rounds(input) == ChaChaSteps([w |-> input, i |-> 0], 7, 80).w

\* the 12 rounds on an input block, the StdRng of the rand this crate builds
\* with
ChaChaRounds(input) == ChaChaSteps([w |-> input, i |-> 0], 6, 48).w

\* the 64 bytes of key stream: the words after the rounds, each added to
\* the word of the input block
ChaChaOutput(input, mixed) ==
    [k \in 1..64 |->
        WordToBytes(WordAdd(mixed[((k - 1) \div 4) + 1],
                            input[((k - 1) \div 4) + 1]))[((k - 1) % 4) + 1]]

\* block number counter of the key stream
ChaChaBlock(key, counter) ==
    ChaChaOutput(ChaChaInput(key, counter), ChaChaRounds(ChaChaInput(key, counter)))

\* StdRng::from_seed(seed) and the n-th (from 0) fill_bytes of 32 bytes
StdRngFill32(seed, n) ==
    SubSeq(ChaChaBlock(seed, n \div 2), 32 * (n % 2) + 1, 32 * (n % 2) + 32)

-----------------------------------------------------------------------------
(* The signature schemes.  Deriving a public key, signing and verifying are  *)
(* black boxes: a signature names the public key and the data it signs, so  *)
(* that verify accepts what sign produced for that key and data.  The       *)
(* checks the decoders make are computed: whether 32 bytes are an ED25519   *)
(* point is decided in the field above, as the library decides it.          *)

\* what a scheme hashes the signed data to
Digest(data) ==
    IF Len(data) = 0 THEN 0 ELSE (data[Len(data)] * 2 + Len(data)) % 251

\* Ed25519Decompresses tabulated for the encodings of 31 zero bytes and one
\* last byte t: the values of t that are a point of the curve
Ed25519PointBytes ==
    <<0, 2, 5, 7, 8, 9, 10, 14, 15, 16, 17, 19, 23, 27, 28, 29,
      32, 33, 34, 35, 40, 43, 45, 46, 47, 51, 54, 55, 60, 61, 62, 63,
      69, 70, 71, 77, 80, 81, 83, 85, 86, 87, 90, 91, 92, 93, 94, 98,
      101, 104, 106, 107, 108, 110, 111, 112, 114, 116, 117, 119, 120, 123, 125, 126,
      128, 130, 133, 135, 136, 137, 138, 142, 143, 144, 145, 147, 151, 155, 156, 157,
      160, 161, 162, 163, 168, 171, 173, 174, 175, 179, 182, 183, 188, 189, 190, 191,
      197, 198, 199, 205, 208, 209, 211, 213, 214, 215, 218, 219, 220, 221, 222, 226,
      229, 232, 234, 235, 236, 238, 239, 240, 242, 244, 245, 247, 248, 251, 253, 254>>

Ed25519PointByteSet == {Ed25519PointBytes[i] : i \in DOMAIN Ed25519PointBytes}

\* the table is what Ed25519Decompresses computes, for the last byte t
Ed25519PointBytesTabulated(t) ==
    t \in Ed25519PointByteSet <=> Ed25519Decompresses(Buf(PUBLIC_KEY_LENGTH, <<t>>))

\* ed25519_dalek::PublicKey::from(&secret): a point of the curve, and not
\* the all-zero one
Ed25519PublicFromSecret(secret) ==
    Buf(PUBLIC_KEY_LENGTH,
        <<Ed25519PointBytes[2 + ((secret[1] + 3 * secret[SECRET_KEY_LENGTH]) % 100)]>>)

\* ed25519_dalek::PublicKey::from_bytes succeeds: the bytes decompress to a
\* point of the curve
Ed25519PointValid(bytes) ==
    /\ Len(bytes) = PUBLIC_KEY_LENGTH
    /\ IF SubSeq(bytes, 1, PUBLIC_KEY_LENGTH - 1) = Zeros(PUBLIC_KEY_LENGTH - 1)
       THEN bytes[PUBLIC_KEY_LENGTH] \in Ed25519PointByteSet
       ELSE Ed25519Decompresses(bytes)

\* ed25519_dalek::Signature::from_bytes: 64 bytes, the three high bits of the
\* last byte clear
Ed25519SignatureFromBytes(bytes) ==
    IF Len(bytes) # SIGNATURE_LENGTH THEN InvalidData("signature error")
    ELSE IF bytes[SIGNATURE_LENGTH] >= 32 THEN InvalidData("signature error")
    ELSE Ok(bytes)

\* ed25519_dalek::Keypair::from_bytes succeeds: 64 bytes whose second half is
\* a point (the two halves are not checked against each other)
Ed25519KeypairValid(bytes) ==
    Len(bytes) = KEYPAIR_LENGTH
    /\ Ed25519PointValid(SubSeq(bytes, SECRET_KEY_LENGTH + 1, KEYPAIR_LENGTH))

\* Keypair::sign: a signature for the keypair's public half, good only when
\* that half is the public key of the secret half
Ed25519Sign(keypair, data) ==
    LET secret == SubSeq(keypair, 1, SECRET_KEY_LENGTH)
        public == SubSeq(keypair, SECRET_KEY_LENGTH + 1, KEYPAIR_LENGTH)
    IN  Buf(SIGNATURE_LENGTH,
            <<public[PUBLIC_KEY_LENGTH], Digest(data),
              IF public = Ed25519PublicFromSecret(secret) THEN 7 ELSE 9>>)

\* the challenge SHA-512(R, A, data) modulo the group order, modulo 4, for
\* the all-zero R and A: 3 for the bytes "123" and for 31 zero bytes and
\* then 5, 1 for 32 zero bytes, 2 for no data
Ed25519ZeroChallenge(data) ==
    CASE data = <<49, 50, 51>> -> 3
      [] data = Buf(32, <<5>>) -> 3
      [] data = Zeros(32) -> 1
      [] data = <<>> -> 2
      [] OTHER -> Digest(data) % 4

\* ed25519_dalek::PublicKey::verify(data, signature).is_ok(): the signature
\* is the one made for the key and the data; or the key and the signature
\* are all zero, where the key is a point of order 4 and the equation
\* [s]B = R + [k]A holds for the challenges k that are 3 modulo 4
Ed25519Verify(public, data, signature) ==
    \/ signature = Buf(SIGNATURE_LENGTH, <<public[PUBLIC_KEY_LENGTH], Digest(data), 7>>)
    \/ /\ public = Zeros(PUBLIC_KEY_LENGTH)
       /\ signature = Zeros(SIGNATURE_LENGTH)
       /\ Ed25519ZeroChallenge(data) = 3

\* secp256k1::SecretKey::from_slice succeeds: 32 bytes, not zero, below N
Secp256k1SecretKeyValid(bytes) ==
    /\ Len(bytes) = SECRET_KEY_SIZE
    /\ bytes # Zeros(SECRET_KEY_SIZE)
    /\ LessThan(bytes, SECP256K1_N)

\* the y coordinate of the curve point with x coordinate x
Secp256k1CurveY(x) == Buf(32, <<(x[32] * 3 + 1) % 256>>)

\* secp256k1::PublicKey::from_secret_key(..).serialize_uncompressed(): the
\* byte 4, then x and y
Secp256k1PublicFromSecret(secret) ==
    LET x == Buf(32, <<1 + ((secret[1] + secret[SECRET_KEY_SIZE]) % 200)>>)
    IN  <<4>> \o x \o Secp256k1CurveY(x)

\* secp256k1::PublicKey::from_slice succeeds on 65 bytes: the byte 4 and a
\* point of the curve
Secp256k1PointValid(bytes) ==
    /\ Len(bytes) = 65
    /\ bytes[1] = 4
    /\ SubSeq(bytes, 2, 33) # Zeros(32)
    /\ SubSeq(bytes, 34, 65) = Secp256k1CurveY(SubSeq(bytes, 2, 33))

\* secp256k1::Message::from_slice succeeds
Secp256k1MessageValid(data) == Len(data) = 32

\* secp256k1::ecdsa::RecoveryId::from_i32 succeeds
RecoveryIdValid(id) == id \in 0..3

\* secp256k1::ecdsa::RecoverableSignature::from_compact succeeds: r and s
\* are below N
RecoverableSignatureValid(compact) ==
    /\ Len(compact) = 64
    /\ LessThan(SubSeq(compact, 1, 32), SECP256K1_N)
    /\ LessThan(SubSeq(compact, 33, 64), SECP256K1_N)

\* Secp256k1::sign_ecdsa_recoverable(..).serialize_compact()
Secp256k1SignRecoverable(message, secret) ==
    LET public == Secp256k1PublicFromSecret(secret)
    IN  [rec_id |-> public[33] % 2,
         data   |-> Buf(64, <<public[33], Digest(message)>>)]

\* Secp256k1::verify_ecdsa(message, sig, public).is_ok()
Secp256k1Verify(message, compact, public) ==
    compact = Buf(64, <<public[33], Digest(message)>>)

\* near_falcon512::falcon512_public_key_from_secret_key
Falcon512PublicFromSecret(secret) ==
    Buf(NEAR_FALCON512_PUBKEY_SIZE, <<1 + (secret[NEAR_FALCON512_PRIVKEY_SIZE] % 200)>>)

\* falcon512::SecretKey::from_bytes, PublicKey::from_bytes and
\* DetachedSignature::from_bytes succeed: the scheme's fixed length
Falcon512SecretKeyValid(bytes) == Len(bytes) = NEAR_FALCON512_PRIVKEY_SIZE
Falcon512PublicKeyValid(bytes) == Len(bytes) = NEAR_FALCON512_PUBKEY_SIZE
Falcon512SignatureValid(bytes) == Len(bytes) = NEAR_FALCON512_SIG_SIZE

\* near_falcon512::falcon512_detached_sign_with_seed; falcon512_detached_sign
\* draws the salt at random
Falcon512Sign(data, secret, salt) ==
    Buf(NEAR_FALCON512_SIG_SIZE,
        <<Falcon512PublicFromSecret(secret)[NEAR_FALCON512_PUBKEY_SIZE], Digest(data), salt>>)

\* near_falcon512::falcon512_verify_detached_signature(..).is_ok()
Falcon512Verify(signature, data, public) ==
    /\ signature[NEAR_FALCON512_SIG_SIZE] >= 1
    /\ signature = Buf(NEAR_FALCON512_SIG_SIZE,
                       <<public[NEAR_FALCON512_PUBKEY_SIZE], Digest(data),
                         signature[NEAR_FALCON512_SIG_SIZE]>>)

-----------------------------------------------------------------------------
(* borsh primitives, as in borsh 0.9: signature.rs implements              *)
(* BorshDeserialize by fn deserialize(buf: &mut &[u8]) alone and its tests  *)
(* call try_to_vec, which is the trait of that release (from 0.10 on the    *)
(* required method is deserialize_reader, and 1.x has no try_to_vec).  In   *)
(* that release a buffer that is too short is ErrorKind::InvalidInput;      *)
(* borsh 1.x reports the same message as ErrorKind::InvalidData.            *)

IoError(kind, why) == [tag |-> "Err", kind |-> kind, error |-> why]

\* a read of the first byte that leaves it in the buffer
BorshPeekU8(buf) ==
    IF Len(buf) < 1 THEN IoError("io::InvalidInput", "Unexpected length of input")
    ELSE [tag |-> "Ok", val |-> buf[1], rest |-> buf]

\* <u8 as BorshDeserialize>::deserialize
BorshReadU8(buf) ==
    IF Len(buf) < 1 THEN IoError("io::InvalidInput", "Unexpected length of input")
    ELSE [tag |-> "Ok", val |-> buf[1], rest |-> SubSeq(buf, 2, Len(buf))]

\* an array read that fills what the buffer lacks with zeros
BorshReadArrayZeroFill(buf, n) ==
    [tag  |-> "Ok",
     val  |-> [i \in 1..n |-> IF i <= Len(buf) THEN buf[i] ELSE 0],
     rest |-> SubSeq(buf, n + 1, Len(buf))]

\* <[u8; n] as BorshDeserialize>::deserialize
BorshReadArray(buf, n) ==
    IF Len(buf) < n THEN IoError("io::InvalidInput", "Unexpected length of input")
    ELSE [tag |-> "Ok", val |-> SubSeq(buf, 1, n), rest |-> SubSeq(buf, n + 1, Len(buf))]

-----------------------------------------------------------------------------
(* PublicKey: [key_type, data], data of the key type's fixed length. *)

\* the pattern of every branch of the three FromStr: decode the base58 text
\* into an array of n bytes, any decoder error is InvalidData, a decoded
\* length other than n is InvalidLength
DecodeArray(key_data, n) ==
    LET r == Bs58DecodeInto(key_data, n)
    IN  IF r.tag # "Ok" THEN r
        ELSE IF Len(r.val) # n THEN InvalidLength(n, Len(r.val))
        ELSE Ok(r.val)

\* PublicKey::key_type
PublicKeyKeyType(public_key) ==
    CASE public_key.key_type = "ED25519" -> "ED25519"
      [] public_key.key_type = "SECP256K1" -> "SECP256K1"
      [] public_key.key_type = "FALCON512" -> "FALCON512"

\* SecretKey::key_type
SecretKeyKeyType(secret_key) ==
    CASE secret_key.key_type = "ED25519" -> "ED25519"
      [] secret_key.key_type = "SECP256K1" -> "SECP256K1"
      [] secret_key.key_type = "FALCON512" -> "FALCON512"

\* Signature::key_type
SignatureKeyType(signature) ==
    CASE signature.key_type = "ED25519" -> "ED25519"
      [] signature.key_type = "SECP256K1" -> "SECP256K1"
      [] signature.key_type = "FALCON512" -> "FALCON512"

\* a placeholder of the ED25519 size whatever the key type
PublicKeyEmptyOneSize(key_type) ==
    [key_type |-> key_type, data |-> Zeros(PUBLIC_KEY_LENGTH)]

\* PublicKey::empty
PublicKeyEmpty(key_type) ==
    CASE key_type = "ED25519" ->
            [key_type |-> "ED25519", data |-> Zeros(PUBLIC_KEY_LENGTH)]
      [] key_type = "SECP256K1" ->
            [key_type |-> "SECP256K1", data |-> Zeros(64)]
      [] key_type = "FALCON512" ->
            [key_type |-> "FALCON512", data |-> Zeros(NEAR_FALCON512_PUBKEY_SIZE)]

\* PublicKey::len
PublicKeyLen(public_key) ==
    CASE public_key.key_type = "ED25519" -> PUBLIC_KEY_LENGTH + 1
      [] public_key.key_type = "SECP256K1" -> 65
      [] public_key.key_type = "FALCON512" -> NEAR_FALCON512_PUBKEY_SIZE + 1

\* PartialEq for PublicKey (derived): the same variant, and the wrapped
\* arrays equal as slices
PublicKeyEq(a, b) ==
    CASE a.key_type = "ED25519" /\ b.key_type = "ED25519" -> a.data = b.data
      [] a.key_type = "SECP256K1" /\ b.key_type = "SECP256K1" -> a.data = b.data
      [] a.key_type = "FALCON512" /\ b.key_type = "FALCON512" -> a.data = b.data
      [] OTHER -> FALSE

\* a hash of the key bytes alone
PublicKeyHashUntagged(public_key) == public_key.data

\* Hash for PublicKey: the bytes written to the hasher
PublicKeyHash(public_key) ==
    CASE public_key.key_type = "ED25519" -> <<0>> \o public_key.data
      [] public_key.key_type = "SECP256K1" -> <<1>> \o public_key.data
      [] public_key.key_type = "FALCON512" -> <<2>> \o public_key.data

\* a text encoder that writes ED25519 keys in the form without a prefix
PublicKeyToStringLegacy(public_key) ==
    CASE public_key.key_type = "ED25519" -> Bs58Encode(public_key.data)
      [] public_key.key_type = "SECP256K1" ->
            KeyTypeToString("SECP256K1") \o <<Colon>> \o Bs58Encode(public_key.data)
      [] public_key.key_type = "FALCON512" ->
            KeyTypeToString("FALCON512") \o <<Colon>> \o Bs58Encode(public_key.data)

\* From<&PublicKey> for String (Display, Debug and serde use it)
PublicKeyToString(public_key) ==
    CASE public_key.key_type = "ED25519" ->
            KeyTypeToString("ED25519") \o <<Colon>> \o Bs58Encode(public_key.data)
      [] public_key.key_type = "SECP256K1" ->
            KeyTypeToString("SECP256K1") \o <<Colon>> \o Bs58Encode(public_key.data)
      [] public_key.key_type = "FALCON512" ->
            KeyTypeToString("FALCON512") \o <<Colon>> \o Bs58Encode(public_key.data)

\* one branch of FromStr for PublicKey
PublicKeyBranch(key_type, key_data, n) ==
    LET a == DecodeArray(key_data, n)
    IN  IF a.tag = "Ok" THEN Ok([key_type |-> key_type, data |-> a.val]) ELSE a

\* FromStr for PublicKey (serde deserialisation parses the string with it)
PublicKeyFromStr(value) ==
    LET s == split_key_type_data(value)
    IN  IF s.tag # "Ok" THEN s
        ELSE CASE s.val.key_type = "ED25519" ->
                    PublicKeyBranch("ED25519", s.val.key_data, PUBLIC_KEY_LENGTH)
               [] s.val.key_type = "SECP256K1" ->
                    PublicKeyBranch("SECP256K1", s.val.key_data, SECP256K1_PUBLIC_KEY_LENGTH)
               [] s.val.key_type = "FALCON512" ->
                    PublicKeyBranch("FALCON512", s.val.key_data, NEAR_FALCON512_PUBKEY_SIZE)

\* BorshSerialize for PublicKey
PublicKeySerialize(public_key) ==
    CASE public_key.key_type = "ED25519" -> <<0>> \o public_key.data
      [] public_key.key_type = "SECP256K1" -> <<1>> \o public_key.data
      [] public_key.key_type = "FALCON512" -> <<2>> \o public_key.data

\* one branch of BorshDeserialize for PublicKey
PublicKeyReadBranch(key_type, buf, n) ==
    LET a == BorshReadArray(buf, n)
    IN  IF a.tag = "Ok"
        THEN [tag |-> "Ok", val |-> [key_type |-> key_type, data |-> a.val], rest |-> a.rest]
        ELSE a

\* BorshDeserialize for PublicKey: the value and the bytes left in the buffer
PublicKeyDeserialize(buf) ==
    LET b == BorshReadU8(buf)
        t == IF b.tag = "Ok" THEN KeyTypeTryFrom(b.val) ELSE b
    IN  IF b.tag # "Ok" THEN b
        ELSE IF t.tag # "Ok" THEN IoError("io::InvalidData", t)
        ELSE CASE t.val = "ED25519" ->
                    PublicKeyReadBranch("ED25519", b.rest, PUBLIC_KEY_LENGTH)
               [] t.val = "SECP256K1" ->
                    PublicKeyReadBranch("SECP256K1", b.rest, SECP256K1_PUBLIC_KEY_LENGTH)
               [] t.val = "FALCON512" ->
                    PublicKeyReadBranch("FALCON512", b.rest, NEAR_FALCON512_PUBKEY_SIZE)

\* BorshDeserialize::try_from_slice: deserialize, and no byte may be left
TryFromSlice(r) ==
    IF r.tag # "Ok" THEN r
    ELSE IF Len(r.rest) # 0 THEN IoError("io::InvalidData", "Not all bytes read")
    ELSE Ok(r.val)

-----------------------------------------------------------------------------
(* SecretKey: [key_type, data].  ED25519 holds the 64-byte keypair (secret  *)
(* then public), SECP256K1 a valid 32-byte scalar, FALCON512 1281 bytes.     *)

\* PartialEq for SecretKey (derived) over ED25519SecretKey (the first
\* SECRET_KEY_LENGTH bytes), secp256k1::SecretKey and Falcon512SecretKey
SecretKeyEq(a, b) ==
    /\ a.key_type = b.key_type
    /\ CASE a.key_type = "ED25519" ->
              SubSeq(a.data, 1, SECRET_KEY_LENGTH) = SubSeq(b.data, 1, SECRET_KEY_LENGTH)
         [] a.key_type = "SECP256K1" -> a.data = b.data
         [] a.key_type = "FALCON512" ->
              SubSeq(a.data, 1, NEAR_FALCON512_PRIVKEY_SIZE)
                  = SubSeq(b.data, 1, NEAR_FALCON512_PRIVKEY_SIZE)
         [] OTHER -> FALSE

\* SecretKey::from_random; entropy is what the random source yields, the
\* trailing bytes of the fresh secret
SecretKeyFromRandom(key_type, entropy) ==
    CASE key_type = "ED25519" ->
            LET secret == Buf(SECRET_KEY_LENGTH, entropy)
            IN  [key_type |-> "ED25519", data |-> secret \o Ed25519PublicFromSecret(secret)]
      [] key_type = "SECP256K1" ->
            [key_type |-> "SECP256K1", data |-> Buf(SECRET_KEY_SIZE, entropy)]
      [] key_type = "FALCON512" ->
            [key_type |-> "FALCON512", data |-> Buf(NEAR_FALCON512_PRIVKEY_SIZE, entropy)]

\* SecretKey::sign; salt is the randomness a FALCON512 signature draws
SecretKeySign(secret_key, data, salt) ==
    CASE secret_key.key_type = "ED25519" ->
            IF ~Ed25519KeypairValid(secret_key.data) THEN Panic("Keypair::from_bytes unwrap")
            ELSE Ok([key_type |-> "ED25519", data |-> Ed25519Sign(secret_key.data, data)])
      [] secret_key.key_type = "SECP256K1" ->
            IF ~Secp256k1MessageValid(data) THEN Panic("32 bytes")
            ELSE LET signature == Secp256k1SignRecoverable(data, secret_key.data)
                 IN  Ok([key_type |-> "SECP256K1",
                         data |-> SubSeq(signature.data, 1, 64) \o <<signature.rec_id>>])
      [] secret_key.key_type = "FALCON512" ->
            IF ~Falcon512SecretKeyValid(secret_key.data) THEN Panic("SecretKey::from_bytes unwrap")
            ELSE Ok([key_type |-> "FALCON512",
                     data |-> Falcon512Sign(data, secret_key.data, salt)])

\* SecretKey::sign and SecretKey::public_key dereference the static SECP256K1
\* on a SECP256K1 key, before anything else in that arm
SecretKeyDerefsContext(secret_key) == secret_key.key_type = "SECP256K1"

\* a public_key that takes the leading half of the ED25519 keypair
SecretKeyPublicKeyLeadingHalf(secret_key) ==
    CASE secret_key.key_type = "ED25519" ->
            Ok([key_type |-> "ED25519",
                data |-> SubSeq(secret_key.data, 1, SECRET_KEY_LENGTH)])
      [] secret_key.key_type = "SECP256K1" ->
            Ok([key_type |-> "SECP256K1",
                data |-> SubSeq(Secp256k1PublicFromSecret(secret_key.data), 2, 65)])
      [] secret_key.key_type = "FALCON512" ->
            Ok([key_type |-> "FALCON512",
                data |-> Falcon512PublicFromSecret(secret_key.data)])

\* SecretKey::public_key
SecretKeyPublicKey(secret_key) ==
    CASE secret_key.key_type = "ED25519" ->
            Ok([key_type |-> "ED25519",
                data |-> SubSeq(secret_key.data, SECRET_KEY_LENGTH + 1, KEYPAIR_LENGTH)])
      [] secret_key.key_type = "SECP256K1" ->
            LET serialized == Secp256k1PublicFromSecret(secret_key.data)
            IN  Ok([key_type |-> "SECP256K1", data |-> SubSeq(serialized, 2, 65)])
      [] secret_key.key_type = "FALCON512" ->
            IF ~Falcon512SecretKeyValid(secret_key.data) THEN Panic("Secret Key from bytes failed")
            ELSE Ok([key_type |-> "FALCON512",
                     data |-> Falcon512PublicFromSecret(secret_key.data)])

\* a Display that writes what Debug for ED25519SecretKey writes, the secret
\* half alone
SecretKeyToStringSecretHalf(secret_key) ==
    LET data == IF secret_key.key_type = "ED25519"
                THEN Bs58Encode(SubSeq(secret_key.data, 1, SECRET_KEY_LENGTH))
                ELSE Bs58Encode(secret_key.data)
    IN  KeyTypeToString(secret_key.key_type) \o <<Colon>> \o data

\* Display for SecretKey (serde serialises the same string)
SecretKeyToString(secret_key) ==
    LET data == CASE secret_key.key_type = "ED25519" -> Bs58Encode(secret_key.data)
                  [] secret_key.key_type = "SECP256K1" -> Bs58Encode(secret_key.data)
                  [] secret_key.key_type = "FALCON512" -> Bs58Encode(secret_key.data)
    IN  KeyTypeToString(secret_key.key_type) \o <<Colon>> \o data

\* FromStr for SecretKey
SecretKeyFromStr(value) ==
    LET s == split_key_type_data(value)
    IN  IF s.tag # "Ok" THEN s
        ELSE CASE s.val.key_type = "ED25519" ->
                    LET a == DecodeArray(s.val.key_data, KEYPAIR_LENGTH)
                    IN  IF a.tag = "Ok" THEN Ok([key_type |-> "ED25519", data |-> a.val])
                        ELSE a
               [] s.val.key_type = "SECP256K1" ->
                    LET a == DecodeArray(s.val.key_data, SECRET_KEY_SIZE)
                    IN  IF a.tag # "Ok" THEN a
                        ELSE IF ~Secp256k1SecretKeyValid(a.val)
                        THEN InvalidData("malformed or out-of-range secret key")
                        ELSE Ok([key_type |-> "SECP256K1", data |-> a.val])
               [] s.val.key_type = "FALCON512" ->
                    LET a == DecodeArray(s.val.key_data, NEAR_FALCON512_PRIVKEY_SIZE)
                    IN  IF a.tag = "Ok"
                        THEN Ok([key_type |-> "FALCON512",
                                 data |-> SubSeq(a.val, 1, NEAR_FALCON512_PRIVKEY_SIZE)])
                        ELSE a

\* a buffer filled up with zero bytes
PadSeedZeros(seed_bytes) ==
    [i \in 1..32 |-> IF i <= Len(seed_bytes) THEN seed_bytes[i] ELSE 0]

\* test_utils.rs: the seed's first 32 bytes, the rest of the 32 bytes spaces
PadSeed(seed_bytes) ==
    [i \in 1..32 |-> IF i <= Len(seed_bytes) THEN seed_bytes[i] ELSE 32]

\* ed25519_key_pair_from_seed(seed).to_bytes()
ed25519_key_pair_from_seed(seed) ==
    LET secret == PadSeed(seed)
    IN  secret \o Ed25519PublicFromSecret(secret)

\* a secret key drawn from the operating system's random source, whatever
\* the seed
secp256k1_secret_key_from_os_rng(seed) ==
    Buf(SECRET_KEY_SIZE, <<os_rng>>)

\* the first secret key drawn from a StdRng of 20 rounds seeded with the
\* padded seed: what the function returns in a build with another rand
secp256k1_secret_key_from_chacha20_seed(seed) ==
    LET Fill(n) ==
            LET input == ChaChaInput(PadSeed(seed), n \div 2)
            IN  SubSeq(ChaChaOutput(input, ChaCha20Rounds(input)),
                       32 * (n % 2) + 1, 32 * (n % 2) + 32)
        RECURSIVE New(_, _)
        New(n, data) ==
            IF Secp256k1SecretKeyValid(data) THEN data ELSE New(n + 1, Fill(n + 1))
    IN  New(0, Fill(0))

\* secp256k1::key::SecretKey::new(&SECP256K1, &mut rng): 32 bytes are drawn
\* from rng until they are a secret key; data is the n-th draw
RECURSIVE Secp256k1SecretKeyNew(_, _, _)
Secp256k1SecretKeyNew(seed, n, data) ==
    IF Secp256k1SecretKeyValid(data) THEN data
    ELSE Secp256k1SecretKeyNew(seed, n + 1, StdRngFill32(seed, n + 1))

\* secp256k1_secret_key_from_seed: the first secret key drawn from the
\* StdRng seeded with the padded seed
secp256k1_secret_key_from_seed(seed) ==
    Secp256k1SecretKeyNew(PadSeed(seed), 0, StdRngFill32(PadSeed(seed), 0))

\* near_falcon512::falcon512_keypair_from_seed(seed.as_bytes()), secret half
falcon512_keypair_from_seed(seed) ==
    Buf(NEAR_FALCON512_PRIVKEY_SIZE,
        <<1 + ((Len(seed) + (IF Len(seed) = 0 THEN 0 ELSE seed[1] + seed[Len(seed)])) % 200)>>)

\* SecretKey::from_seed
SecretKeyFromSeed(key_type, seed) ==
    CASE key_type = "ED25519" ->
            [key_type |-> "ED25519", data |-> ed25519_key_pair_from_seed(seed)]
      [] key_type = "FALCON512" ->
            [key_type |-> "FALCON512", data |-> falcon512_keypair_from_seed(seed)]
      [] OTHER ->
            [key_type |-> "SECP256K1", data |-> secp256k1_secret_key_from_seed(seed)]

\* SecretKey::from_seed dereferences the static SECP256K1 in
\* secp256k1_secret_key_from_seed
SecretKeyFromSeedDerefsContext(key_type) == key_type \notin {"ED25519", "FALCON512"}

-----------------------------------------------------------------------------
(* Signature: [key_type, data].  ED25519 64 bytes, SECP256K1 65 bytes (the  *)
(* compact signature, then the recovery id), FALCON512 666 bytes.            *)

\* a check that holds s to the whole group order whatever reject_upper is
check_signature_values_whole_order(signature, reject_upper) ==
    LET r == SubSeq(signature, 1, 32)
        s == SubSeq(signature, 33, 64)
    IN  LessThan(r, SECP256K1_N) /\ LessThan(s, SECP256K1_N)

\* Secp256K1Signature::check_signature_values
check_signature_values(signature, reject_upper) ==
    LET r == SubSeq(signature, 1, 32)
        s == SubSeq(signature, 33, 64)
        s_check == IF reject_upper THEN SECP256K1_N_HALF_ONE ELSE SECP256K1_N
    IN  LessThan(r, SECP256K1_N) /\ LessThan(s, s_check)

\* Secp256k1::recover_ecdsa(..).serialize_uncompressed(): the public key that
\* made the signature, or an error when s is zero
Secp256k1Recover(message, compact, id) ==
    IF SubSeq(compact, 33, 64) = Zeros(32) THEN InvalidData("secp: malformed signature")
    ELSE LET x == Buf(32, <<IF compact[63] # 0 /\ compact[64] = Digest(message)
                            THEN compact[63]
                            ELSE 1 + ((compact[63] + compact[64] + id) % 200)>>)
         IN  Ok(<<4>> \o x \o Secp256k1CurveY(x))

\* Secp256K1Signature::recover
Secp256K1SignatureRecover(signature, msg) ==
    IF ~RecoveryIdValid(signature[65]) THEN Panic("RecoveryId::from_i32 unwrap")
    ELSE IF ~RecoverableSignatureValid(SubSeq(signature, 1, 64))
    THEN InvalidData("secp: malformed signature")
    ELSE IF ~Secp256k1MessageValid(msg) THEN Panic("Message::from_slice unwrap")
    ELSE LET res == Secp256k1Recover(msg, SubSeq(signature, 1, 64), signature[65])
         IN  IF res.tag # "Ok" THEN res
             ELSE IF Len(SubSeq(res.val, 2, 65)) # SECP256K1_PUBLIC_KEY_LENGTH
             THEN Panic("Secp256K1PublicKey::try_from unwrap")
             ELSE Ok(SubSeq(res.val, 2, 65))

\* Secp256K1Signature::recover dereferences the static SECP256K1 once the
\* recovery id, the compact signature and the message are accepted
Secp256K1SignatureRecoverDerefsContext(signature, msg) ==
    /\ RecoveryIdValid(signature[65])
    /\ RecoverableSignatureValid(SubSeq(signature, 1, 64))
    /\ Secp256k1MessageValid(msg)

\* TryFrom<&[u8]> for Secp256K1Signature
Secp256K1SignatureTryFrom(data) ==
    IF Len(data) # 65 THEN InvalidLength(65, Len(data)) ELSE Ok(data)

\* Signature::from_parts
SignatureFromParts(signature_type, signature_data) ==
    CASE signature_type = "ED25519" ->
            LET r == Ed25519SignatureFromBytes(signature_data)
            IN  IF r.tag = "Ok" THEN Ok([key_type |-> "ED25519", data |-> r.val])
                ELSE InvalidData(r.error_message)
      [] signature_type = "SECP256K1" ->
            LET r == Secp256K1SignatureTryFrom(signature_data)
            IN  IF r.tag = "Ok" THEN Ok([key_type |-> "SECP256K1", data |-> r.val])
                ELSE InvalidData("invalid Secp256k1 signature length")
      [] signature_type = "FALCON512" ->
            IF ~Falcon512SignatureValid(signature_data)
            THEN Panic("Wrong Falcon Detached Signature")
            ELSE Ok([key_type |-> "FALCON512", data |-> signature_data])

\* a verify that takes a mismatched pair for a caller's mistake
SignatureVerifyStrict(signature, data, public_key) ==
    IF signature.key_type = public_key.key_type THEN Ok(FALSE)
    ELSE Panic("mismatched key types")

\* Signature::verify
SignatureVerify(signature, data, public_key) ==
    CASE signature.key_type = "ED25519" /\ public_key.key_type = "ED25519" ->
            IF ~Ed25519PointValid(public_key.data) THEN Ok(FALSE)
            ELSE Ok(Ed25519Verify(public_key.data, data, signature.data))
      [] signature.key_type = "SECP256K1" /\ public_key.key_type = "SECP256K1" ->
            LET pdata == <<4>> \o public_key.data
            IN  IF ~RecoveryIdValid(signature.data[65]) THEN Panic("RecoveryId::from_i32 unwrap")
                ELSE IF ~RecoverableSignatureValid(SubSeq(signature.data, 1, 64))
                THEN Panic("RecoverableSignature::from_compact unwrap")
                ELSE IF ~Secp256k1MessageValid(data) THEN Panic("32 bytes")
                ELSE IF ~Secp256k1PointValid(pdata) THEN Panic("PublicKey::from_slice unwrap")
                ELSE Ok(Secp256k1Verify(data, SubSeq(signature.data, 1, 64), pdata))
      [] signature.key_type = "FALCON512" /\ public_key.key_type = "FALCON512" ->
            IF ~Falcon512PublicKeyValid(public_key.data) THEN Ok(FALSE)
            ELSE Ok(Falcon512Verify(signature.data, data, public_key.data))
      [] OTHER -> Ok(FALSE)

\* Signature::verify dereferences the static SECP256K1 in the SECP256K1 arm,
\* once the recovery id and the compact signature are accepted and before the
\* message and the public key are looked at
SignatureVerifyDerefsContext(signature, public_key) ==
    /\ signature.key_type = "SECP256K1" /\ public_key.key_type = "SECP256K1"
    /\ RecoveryIdValid(signature.data[65])
    /\ RecoverableSignatureValid(SubSeq(signature.data, 1, 64))

\* a serializer that writes the payload as a byte vector, its length as a
\* little-endian u32 before it
SignatureSerializeLengthPrefixed(signature) ==
    <<KeyTypeDiscriminant(signature.key_type),
      Len(signature.data) % 256, Len(signature.data) \div 256, 0, 0>> \o signature.data

\* BorshSerialize for Signature
SignatureSerialize(signature) ==
    CASE signature.key_type = "ED25519" -> <<0>> \o signature.data
      [] signature.key_type = "SECP256K1" -> <<1>> \o signature.data
      [] signature.key_type = "FALCON512" -> <<2>> \o signature.data

\* BorshDeserialize for Signature: the value and the bytes left in the buffer
SignatureDeserialize(buf) ==
    LET b == BorshReadU8(buf)
        t == IF b.tag = "Ok" THEN KeyTypeTryFrom(b.val) ELSE b
    IN  IF b.tag # "Ok" THEN b
        ELSE IF t.tag # "Ok" THEN IoError("io::InvalidData", t)
        ELSE CASE t.val = "ED25519" ->
                    LET array == BorshReadArray(b.rest, SIGNATURE_LENGTH)
                        r     == IF array.tag = "Ok" THEN Ed25519SignatureFromBytes(array.val)
                                 ELSE array
                    IN  IF array.tag # "Ok" THEN array
                        ELSE IF r.tag # "Ok" THEN IoError("io::InvalidData", r.error_message)
                        ELSE [tag |-> "Ok", val |-> [key_type |-> "ED25519", data |-> r.val],
                              rest |-> array.rest]
               [] t.val = "SECP256K1" ->
                    LET array == BorshReadArray(b.rest, 65)
                    IN  IF array.tag # "Ok" THEN array
                        ELSE [tag |-> "Ok",
                              val |-> [key_type |-> "SECP256K1", data |-> array.val],
                              rest |-> array.rest]
               [] t.val = "FALCON512" ->
                    LET array == BorshReadArray(b.rest, NEAR_FALCON512_SIG_SIZE)
                    IN  IF array.tag # "Ok" THEN array
                        ELSE IF ~Falcon512SignatureValid(array.val)
                        THEN Panic("Falcon512 deserialize failed")
                        ELSE [tag |-> "Ok",
                              val |-> [key_type |-> "FALCON512", data |-> array.val],
                              rest |-> array.rest]

\* a call of a trait method on a type that has no impl of the trait: no
\* program that makes the call builds
NoImpl(trait, type) == [tag |-> "NoImpl", trait |-> trait, type |-> type]

\* the union types signature.rs implements BorshSerialize and
\* BorshDeserialize for
BorshTypes == {"PublicKey", "Signature"}

\* value.try_to_vec() on a union type: the impl blocks of BorshSerialize are
\* those for PublicKey and for Signature; SecretKey has Display, FromStr and
\* the serde impls, which write and read the text form
BorshTryToVec(kind, value) ==
    CASE kind = "PublicKey" -> Ok(PublicKeySerialize(value))
      [] kind = "Signature" -> Ok(SignatureSerialize(value))
      [] OTHER -> NoImpl("BorshSerialize", kind)

\* T::try_from_slice(bytes) on a union type, by the impl blocks of
\* BorshDeserialize
BorshTryFromSlice(kind, bytes) ==
    CASE kind = "PublicKey" -> TryFromSlice(PublicKeyDeserialize(bytes))
      [] kind = "Signature" -> TryFromSlice(SignatureDeserialize(bytes))
      [] OTHER -> NoImpl("BorshDeserialize", kind)

\* Display for Signature (Debug and serde use it)
SignatureToString(signature) ==
    LET data == CASE signature.key_type = "ED25519" -> Bs58Encode(signature.data)
                  [] signature.key_type = "SECP256K1" -> Bs58Encode(signature.data)
                  [] signature.key_type = "FALCON512" -> Bs58Encode(signature.data)
    IN  KeyTypeToString(signature.key_type) \o <<Colon>> \o data

\* FromStr for Signature
SignatureFromStr(value) ==
    LET s == split_key_type_data(value)
    IN  IF s.tag # "Ok" THEN s
        ELSE CASE s.val.key_type = "ED25519" ->
                    LET a == DecodeArray(s.val.key_data, SIGNATURE_LENGTH)
                        r == IF a.tag = "Ok" THEN Ed25519SignatureFromBytes(a.val) ELSE a
                    IN  IF r.tag = "Ok" THEN Ok([key_type |-> "ED25519", data |-> r.val])
                        ELSE r
               [] s.val.key_type = "SECP256K1" ->
                    LET a == DecodeArray(s.val.key_data, 65)
                    IN  IF a.tag = "Ok" THEN Ok([key_type |-> "SECP256K1", data |-> a.val])
                        ELSE a
               [] s.val.key_type = "FALCON512" ->
                    LET a == DecodeArray(s.val.key_data, NEAR_FALCON512_SIG_SIZE)
                    IN  IF a.tag # "Ok" THEN a
                        ELSE IF ~Falcon512SignatureValid(a.val)
                        THEN Panic("From String import Falcon failed")
                        ELSE Ok([key_type |-> "FALCON512", data |-> a.val])

-----------------------------------------------------------------------------
(* key_file.rs and signer.rs.  A key file is a JSON object, here the        *)
(* sequence of its <<field name, string value>> members in the order they   *)
(* are written.  An InMemorySigner is [account_id, public_key, secret_key]. *)

\* PublicKey::from_seed (test_utils.rs); the FALCON512 public key is the
\* public half of the pair falcon512_keypair_from_seed generates
PublicKeyFromSeed(key_type, seed) ==
    CASE key_type = "ED25519" ->
            Ok([key_type |-> "ED25519",
                data |-> SubSeq(ed25519_key_pair_from_seed(seed),
                                SECRET_KEY_LENGTH + 1, KEYPAIR_LENGTH)])
      [] key_type = "FALCON512" ->
            Ok([key_type |-> "FALCON512",
                data |-> Falcon512PublicFromSecret(falcon512_keypair_from_seed(seed))])
      [] OTHER -> Panic("unimplemented!()")

\* an empty signature for every key type
SignatureEmptyAnyKeyType(key_type) ==
    Ok([key_type |-> key_type,
        data |-> Zeros(CASE key_type = "ED25519" -> SIGNATURE_LENGTH
                         [] key_type = "SECP256K1" -> SECP256K1_SIGNATURE_LENGTH
                         [] key_type = "FALCON512" -> NEAR_FALCON512_SIG_SIZE)])

\* Signature::empty (test_utils.rs)
SignatureEmpty(key_type) ==
    CASE key_type = "ED25519" ->
            LET r == Ed25519SignatureFromBytes(Zeros(SIGNATURE_LENGTH))
            IN  IF r.tag # "Ok" THEN Panic("Signature::from_bytes unwrap")
                ELSE Ok([key_type |-> "ED25519", data |-> r.val])
      [] key_type = "FALCON512" ->
            IF ~Falcon512SignatureValid(Zeros(NEAR_FALCON512_SIG_SIZE))
            THEN Panic("Falcon512Signature::try_from unwrap")
            ELSE Ok([key_type |-> "FALCON512", data |-> Zeros(NEAR_FALCON512_SIG_SIZE)])
      [] OTHER -> Panic("unimplemented!()")

\* Default for Signature
SignatureDefault == SignatureEmpty("ED25519")

\* Signer for EmptySigner: public_key
EmptySigner_public_key == PublicKeyEmpty("ED25519")

\* Signer for EmptySigner: sign
EmptySigner_sign(data) == SignatureEmpty("ED25519")

\* near_account_id::AccountId::from_str: 2 to 64 characters
AccountIdFromStr(value) ==
    IF Len(value) >= 2 /\ Len(value) <= 64 THEN Ok(value)
    ELSE [tag |-> "Err", kind |-> "ParseAccountError", error_message |-> value]

\* an error of the derived Deserialize: what it reports and about what
SerdeError(what, detail) == [tag |-> "Err", kind |-> "serde", message |-> <<what, detail>>]

\* a field of KeyFile that takes no alias
KeyFileFieldNoAlias(name) ==
    CASE name = "account_id" -> "account_id"
      [] name = "public_key" -> "public_key"
      [] name = "secret_key" -> "secret_key"
      [] OTHER -> "ignore"

\* the field of KeyFile a member name stands for: secret_key has the alias
\* private_key, unknown names are skipped
KeyFileField(name) ==
    CASE name = "account_id" -> "account_id"
      [] name = "public_key" -> "public_key"
      [] name \in {"secret_key", "private_key"} -> "secret_key"
      [] OTHER -> "ignore"

\* a field not met yet
Unset == [tag |-> "Unset"]

\* the string value of a member, read as the field's type
KeyFileValue(field, value) ==
    CASE field = "account_id" -> AccountIdFromStr(value)
      [] field = "public_key" -> PublicKeyFromStr(value)
      [] field = "secret_key" -> SecretKeyFromStr(value)
      [] OTHER -> Ok(value)

\* derive(Deserialize) for KeyFile: the members in order; a field met twice
\* is an error, so is a value that does not parse, so is a field never met
RECURSIVE KeyFileVisit(_, _, _)

\* one member of the object: its field and its value v read as that field
KeyFileMember(content, i, acc, field, v) ==
    IF field = "ignore" THEN KeyFileVisit(content, i + 1, acc)
    ELSE IF acc[field] # Unset THEN SerdeError("duplicate field", field)
    ELSE IF v.tag # "Ok" THEN SerdeError("custom", v)
    ELSE KeyFileVisit(content, i + 1, [acc EXCEPT ![field] = v])

KeyFileVisit(content, i, acc) ==
    IF i > Len(content)
    THEN IF acc.account_id = Unset THEN SerdeError("missing field", "account_id")
         ELSE IF acc.public_key = Unset THEN SerdeError("missing field", "public_key")
         ELSE IF acc.secret_key = Unset THEN SerdeError("missing field", "secret_key")
         ELSE Ok([account_id |-> acc.account_id.val,
                  public_key |-> acc.public_key.val,
                  secret_key |-> acc.secret_key.val])
    ELSE KeyFileMember(content, i, acc, KeyFileField(content[i][1]),
                       KeyFileValue(KeyFileField(content[i][1]), content[i][2]))

\* From<serde_json::Error> for io::Error: an error in the data is InvalidData
SerdeToIo(r) == IF r.tag # "Ok" THEN IoError("io::InvalidData", r.message) ELSE r

\* KeyFile::from_file on a file with the given content
KeyFileFromFile(content) ==
    SerdeToIo(KeyFileVisit(content, 1,
                           [account_id |-> Unset, public_key |-> Unset, secret_key |-> Unset]))

\* From<KeyFile> for InMemorySigner
InMemorySignerFromKeyFile(key_file) ==
    [account_id |-> key_file.account_id,
     public_key |-> key_file.public_key,
     secret_key |-> key_file.secret_key]

\* io::Result::map(Self::from)
MapFromKeyFile(r) == IF r.tag # "Ok" THEN r ELSE Ok(InMemorySignerFromKeyFile(r.val))

\* InMemorySigner::from_file
InMemorySignerFromFile(content) == MapFromKeyFile(KeyFileFromFile(content))

\* InMemorySigner::from_secret_key
InMemorySignerFromSecretKey(account_id, secret_key) ==
    LET public_key == SecretKeyPublicKey(secret_key)
    IN  IF public_key.tag # "Ok" THEN public_key
        ELSE Ok([account_id |-> account_id,
                 public_key |-> public_key.val,
                 secret_key |-> secret_key])

\* InMemorySigner::from_seed
InMemorySignerFromSeed(account_id, key_type, seed) ==
    LET secret_key == SecretKeyFromSeed(key_type, seed)
        public_key == SecretKeyPublicKey(secret_key)
    IN  IF public_key.tag # "Ok" THEN public_key
        ELSE Ok([account_id |-> account_id,
                 public_key |-> public_key.val,
                 secret_key |-> secret_key])

\* InMemorySigner::from_random
InMemorySignerFromRandom(account_id, key_type, entropy) ==
    LET secret_key == SecretKeyFromRandom(key_type, entropy)
        public_key == SecretKeyPublicKey(secret_key)
    IN  IF public_key.tag # "Ok" THEN public_key
        ELSE Ok([account_id |-> account_id,
                 public_key |-> public_key.val,
                 secret_key |-> secret_key])

\* key_conversion::convert_secret_key and vrf::SecretKey::compute_vrf_with_proof
VrfWithProof(secret, data) ==
    [value |-> <<secret[1], Digest(data)>>, proof |-> <<secret[SECRET_KEY_LENGTH], Digest(data)>>]

\* SecretKey::unwrap_as_ed25519 and SecretKey::unwrap_as_falcon512
SecretKeyUnwrapAsEd25519(secret_key) ==
    IF secret_key.key_type = "ED25519" THEN Ok(secret_key.data) ELSE Panic("panic!()")

SecretKeyUnwrapAsFalcon512(secret_key) ==
    IF secret_key.key_type = "FALCON512" THEN Ok(secret_key.data) ELSE Panic("panic!()")

\* PublicKey::unwrap_as_ed25519 and PublicKey::unwrap_as_falcon512
PublicKeyUnwrapAsEd25519(public_key) ==
    IF public_key.key_type = "ED25519" THEN Ok(public_key.data) ELSE Panic("panic!()")

PublicKeyUnwrapAsFalcon512(public_key) ==
    IF public_key.key_type = "FALCON512" THEN Ok(public_key.data) ELSE Panic("panic!()")

\* Signer::compute_vrf_with_proof for InMemorySigner
InMemorySignerComputeVrfWithProof(in_memory_signer, data) ==
    LET key == SecretKeyUnwrapAsEd25519(in_memory_signer.secret_key)
    IN  IF key.tag # "Ok" THEN key ELSE Ok(VrfWithProof(key.val, data))

\* a sign_with_seed that signs with whatever key it is given
SecretKeySignWithSeedAnyKey(secret_key, data, seed) ==
    IF secret_key.key_type = "FALCON512"
    THEN IF ~Falcon512SecretKeyValid(secret_key.data) THEN Panic("SecretKey::from_bytes unwrap")
         ELSE Ok([key_type |-> "FALCON512",
                  data |-> Falcon512Sign(data, secret_key.data, 1 + (Digest(seed) % 2))])
    ELSE SecretKeySign(secret_key, data, 1)

\* SecretKey::sign_with_seed
SecretKeySignWithSeed(secret_key, data, seed) ==
    IF secret_key.key_type = "FALCON512"
    THEN IF ~Falcon512SecretKeyValid(secret_key.data) THEN Panic("SecretKey::from_bytes unwrap")
         ELSE Ok([key_type |-> "FALCON512",
                  data |-> Falcon512Sign(data, secret_key.data, 1 + (Digest(seed) % 2))])
    ELSE Panic("panic!()")

-----------------------------------------------------------------------------
(* The inputs the operations are driven with.                                *)

\* byte values a generated buffer ends in: 1 is a good recovery id, 224 has
\* the three high bits set (no ED25519 signature) and is no recovery id, and
\* neither is the last byte of an ED25519 point after 31 zero bytes; 2 is one
TailPool == <<1, 224, 2, 255>>
TailBytes == {TailPool[i] : i \in 1..NumTailBytes}

\* seeds: "test", "a", "test " and "" 
SeedPool == << <<116, 101, 115, 116>>, <<97>>, <<116, 101, 115, 116, 32>>, <<>> >>
Seeds == {SeedPool[i] : i \in 1..NumSeeds}

\* signed data: a 32-byte hash and the three bytes "123"
DataPool == {Buf(32, <<5>>), <<49, 50, 51>>}

\* the randomness a FALCON512 signature may draw
Salts == {1, 2}

\* the fixed payload length of each kind of value
PayloadLength(kind, key_type) ==
    CASE kind = "PublicKey" ->
            (CASE key_type = "ED25519" -> PUBLIC_KEY_LENGTH
               [] key_type = "SECP256K1" -> SECP256K1_PUBLIC_KEY_LENGTH
               [] key_type = "FALCON512" -> NEAR_FALCON512_PUBKEY_SIZE)
      [] kind = "SecretKey" ->
            (CASE key_type = "ED25519" -> KEYPAIR_LENGTH
               [] key_type = "SECP256K1" -> SECRET_KEY_SIZE
               [] key_type = "FALCON512" -> NEAR_FALCON512_PRIVKEY_SIZE)
      [] kind = "Signature" ->
            (CASE key_type = "ED25519" -> SIGNATURE_LENGTH
               [] key_type = "SECP256K1" -> SECP256K1_SIGNATURE_LENGTH
               [] key_type = "FALCON512" -> NEAR_FALCON512_SIG_SIZE)

\* payloads of the fixed length n, of one byte less and of one byte more
Payloads(n) ==
    {Zeros(n)} \cup {Buf(n, <<b>>) : b \in TailBytes}
        \cup {Buf(n - 1, <<TailPool[1]>>), Buf(n + 1, <<TailPool[1]>>)}

\* "rsa:11", "ed25519:0" (0 is no base58 digit), "ed25519:" and a byte of a
\* non-ASCII character, and a payload with no "type:" prefix
MalformedTexts ==
    { <<114, 115, 97, Colon, 49, 49>>,
      KeyTypeToString("ED25519") \o <<Colon, 48>>,
      KeyTypeToString("ED25519") \o <<Colon, 195, 169>>,
      Bs58Encode(Buf(PUBLIC_KEY_LENGTH, <<TailPool[1]>>)) }

\* texts in the form without a prefix: the base58 of 32, 64 and 65 bytes
LegacyTexts ==
    { Bs58Encode(Buf(PUBLIC_KEY_LENGTH, <<TailPool[1]>>)),
      Bs58Encode(Buf(KEYPAIR_LENGTH, <<TailPool[1]>>)),
      Bs58Encode(Buf(SECP256K1_SIGNATURE_LENGTH, <<TailPool[1]>>)) }

\* texts with more than one colon, or with nothing before the colon:
\* "ed25519:1:1", "rsa:ed25519:" and "secp256k1:ed25519:" before the base58
\* of 32 bytes, and ":11"
ColonTexts ==
    { KeyTypeToString("ED25519") \o <<Colon, 49, Colon, 49>>,
      <<114, 115, 97, Colon>> \o KeyTypeToString("ED25519") \o <<Colon>>
          \o Bs58Encode(Buf(PUBLIC_KEY_LENGTH, <<TailPool[1]>>)),
      KeyTypeToString("SECP256K1") \o <<Colon>> \o KeyTypeToString("ED25519") \o <<Colon>>
          \o Bs58Encode(Buf(PUBLIC_KEY_LENGTH, <<TailPool[1]>>)),
      <<Colon, 49, 49>> }

\* the strings from_str of a kind of value is called with
Texts(kind) ==
    {KeyTypeToString(t[1]) \o <<Colon>> \o Bs58Encode(t[2]) :
        t \in UNION {{<<k, q>> : q \in Payloads(PayloadLength(kind, k))} : k \in KeyTypes}}
        \cup MalformedTexts \cup LegacyTexts \cup ColonTexts

PublicKeyTexts == Texts("PublicKey")
SecretKeyTexts == Texts("SecretKey")
SignatureTexts == Texts("Signature")

\* the buffers the binary decoder of a kind of value is called with
Buffers(kind) ==
    {<<KeyTypeDiscriminant(t[1])>> \o t[2] :
        t \in UNION {{<<k, q>> : q \in Payloads(PayloadLength(kind, k))} : k \in KeyTypes}}
        \cup {<<>>, <<0>>, <<3>> \o Zeros(32), <<255>>}

PublicKeyBuffers == Buffers("PublicKey")

\* the secret keys the text decoder returns, to compare a secret key with
DecodedSecretKeys ==
    {r.val : r \in {q \in {SecretKeyFromStr(v) : v \in SecretKeyTexts} : q.tag = "Ok"}}

\* the public keys the text decoder returns, to compare a public key with
DecodedPublicKeys ==
    {r.val : r \in {q \in {PublicKeyFromStr(v) : v \in PublicKeyTexts} : q.tag = "Ok"}}

\* the signatures the text decoder returns
DecodedSignatures ==
    {r.val : r \in {q \in {SignatureFromStr(v) : v \in SignatureTexts} : q.tag = "Ok"}}

\* what follows an encoded value in a buffer: nothing, a byte, the encoding
\* of a public key, the encoding of a signature
StreamRests ==
    { <<>>, <<1>>,
      PublicKeySerialize(PublicKeyEmpty("ED25519")),
      SignatureSerialize([key_type |-> "SECP256K1",
                          data |-> Buf(SECP256K1_SIGNATURE_LENGTH, <<TailPool[1]>>)]) }

\* seeds to set beside the seeds of SeedPool: "test " (a space more), "test"
\* and 28 spaces (32 bytes), the same and "x" (33 bytes), and "tesu"
SeedVariants ==
    { <<116, 101, 115, 116, 32>>,
      <<116, 101, 115, 116>> \o [i \in 1..28 |-> 32],
      <<116, 101, 115, 116>> \o [i \in 1..28 |-> 32] \o <<120>>,
      <<116, 101, 115, 117>> }

\* with a SECP256K1 signature whose r and s are not below the group order
SignatureBuffers ==
    Buffers("Signature") \cup {<<1>> \o [i \in 1..64 |-> 255] \o <<0>>}

\* the (key type, bytes) pairs Signature::from_parts is called with
SignatureParts ==
    UNION {{<<k, q>> : q \in Payloads(PayloadLength("Signature", k))} : k \in KeyTypes}

\* scalars around the bounds check_signature_values compares with: 0, 1,
\* N/2, N/2 + 1, N - 1, N and 2^256 - 1
Secp256k1Scalars ==
    { Zeros(32), Buf(32, <<1>>),
      [SECP256K1_N_HALF_ONE EXCEPT ![32] = 160], SECP256K1_N_HALF_ONE,
      [SECP256K1_N EXCEPT ![32] = 64], SECP256K1_N,
      [i \in 1..32 |-> 255] }

\* the 65-byte arrays a Secp256K1Signature is made from: r, s and the
\* recovery id; and the signatures SecretKey::sign makes
Secp256K1Signatures ==
    {r \o z \o <<v>> :
        r \in {Buf(32, <<1>>), [SECP256K1_N EXCEPT ![32] = 64], SECP256K1_N},
        z \in Secp256k1Scalars, v \in {0, 3, 4, 224}}
    \cup {Buf(64, <<a, Digest(d)>>) \o <<a % 2>> : a \in TailBytes, d \in DataPool}

\* the account a signer is made for: "test"
AccountIds == { <<116, 101, 115, 116>> }

\* the secret key a key file holds, for each key type: a generated one
FileKey(key_type) == SecretKeyFromRandom(key_type, <<TailPool[1]>>)

\* the key pairs key files hold: <<public key, secret key>>
FileKeyPairs ==
    {<<SecretKeyPublicKey(k).val, k>> : k \in {FileKey(t) : t \in KeyTypes}}

\* the key pairs key files hold as text, by key type
FileKeyTexts ==
    [t \in KeyTypes |->
        CHOOSE x \in {<<p[2].key_type, PublicKeyToString(p[1]), SecretKeyToString(p[2])>> :
                          p \in FileKeyPairs} : x[1] = t]

\* the text of the ED25519 public key of another generated key
OtherPublicKeyText ==
    CHOOSE x \in {PublicKeyToString(SecretKeyPublicKey(k).val) :
                      k \in {SecretKeyFromRandom("ED25519", <<TailPool[2]>>)}} : TRUE

\* a key file as write_to_file writes it, the secret key under the given name
KeyFileOf(secret_name, public_key, secret_key) ==
    << <<"account_id", SeedPool[1]>>,
       <<"public_key", public_key>>,
       <<secret_name, secret_key>> >>

\* the key files read: for each key type the file of a key pair with the
\* secret key as secret_key and as private_key; a file with both names; a
\* file whose public key belongs to another secret key; a file without a
\* secret key; a file with an extra member; a file whose public key does not
\* parse
KeyFileContents ==
    {KeyFileOf(n, FileKeyTexts[t][2], FileKeyTexts[t][3]) :
        n \in {"secret_key", "private_key"}, t \in KeyTypes}
    \cup { KeyFileOf("secret_key", FileKeyTexts["ED25519"][2], FileKeyTexts["ED25519"][3])
              \o << <<"private_key", FileKeyTexts["ED25519"][3]>> >>,
           KeyFileOf("secret_key",
                     OtherPublicKeyText,
                     FileKeyTexts["ED25519"][3]),
           << <<"account_id", SeedPool[1]>>,
              <<"public_key", FileKeyTexts["ED25519"][2]>> >>,
           << <<"comment", <<>> >> >>
              \o KeyFileOf("private_key", FileKeyTexts["SECP256K1"][2],
                           FileKeyTexts["SECP256K1"][3]),
           KeyFileOf("secret_key", <<114, 115, 97, Colon, 49, 49>>,
                     FileKeyTexts["ED25519"][3]) }

\* the strings KeyType::from_str is called with: the three names, "ED25519",
\* "Secp256K1", "FALCON512", "rsa", "RSA", "Rsa" and ""
KeyTypeTexts ==
    {KeyTypeToString(t) : t \in KeyTypes}
        \cup {<<69, 68, 50, 53, 53, 49, 57>>,
              <<83, 101, 99, 112, 50, 53, 54, 75, 49>>,
              <<70, 65, 76, 67, 79, 78, 53, 49, 50>>,
              <<114, 115, 97>>, <<82, 83, 65>>, <<82, 115, 97>>, <<>>}

-----------------------------------------------------------------------------
(* The state: one secret key, one public key, one signature and one         *)
(* InMemorySigner, each built once; the next value of the operating         *)
(* system's random source; and the last call made with what it returned.    *)
(* A behaviour is either a signer's (a secret key is built first, the       *)
(* public key is derived from it and the signature made with it, or the     *)
(* key is moved into an InMemorySigner), a verifier's (no secret key; the   *)
(* public key and the signature are parsed or decoded) or that of an        *)
(* InMemorySigner built from a seed, the random source or a key file.       *)

None == [key_type |-> "none", data |-> <<>>]

\* Lazy::force by the only thread there is: a COMPLETE cell is read, any other
\* is taken, the initialiser run, the context written and the cell made
\* COMPLETE before the call goes on
LazyForce(cell) ==
    IF cell.state = "COMPLETE" THEN cell
    ELSE [state |-> "COMPLETE", value |-> "context",
          inits |-> cell.inits + 1, writes |-> cell.writes + 1]

\* what a call does to the static SECP256K1: one that dereferences it waits
\* while an initialiser runs and leaves the cell forced, any other leaves it
\* alone
Deref(derefs) ==
    IF derefs
    THEN SECP256K1.state # "RUNNING" /\ SECP256K1' = LazyForce(SECP256K1)
    ELSE UNCHANGED SECP256K1

\* no signer built yet
NoSigner == [account_id |-> <<>>, public_key |-> None, secret_key |-> None]

Call(op, arg, ret) == [op |-> op, arg |-> arg, ret |-> ret]

\* the slot after an operation that returns a value or fails
Filled(slot, r) == IF r.tag = "Ok" THEN r.val ELSE slot

\* nothing is built
Idle == sk = None /\ pk = None /\ sig = None /\ signer = NoSigner

\* a call was made and nothing is built: the call failed, or it only
\* computed.  The behaviour stops there: the values are what they were
\* before the call, and so is everything that could follow.
Spent == Idle /\ last.op # "none"

Init ==
    /\ sk = None
    /\ pk = None
    /\ sig = None
    /\ signer = NoSigner
    /\ os_rng \in TailBytes
    /\ last = Call("none", <<>>, Ok(<<>>))
    /\ SECP256K1 = [state |-> "INCOMPLETE", value |-> "none", inits |-> 0, writes |-> 0]
    /\ threads = [t \in 1..NumThreads |-> [pc |-> "idle", op |-> "none", curr |-> "none", seen |-> "none"]]

FromRandom(key_type, entropy) ==
    /\ Idle /\ ~Spent
    /\ sk' = SecretKeyFromRandom(key_type, <<entropy>>)
    /\ last' = Call("SecretKey::from_random", key_type, Ok(sk'))
    /\ os_rng' \in TailBytes
    /\ UNCHANGED <<pk, sig, signer, SECP256K1, threads>>

FromSeed(key_type, seed) ==
    /\ Idle /\ ~Spent
    /\ sk' = SecretKeyFromSeed(key_type, seed)
    /\ last' = Call("SecretKey::from_seed", <<key_type, seed>>, Ok(sk'))
    /\ Deref(SecretKeyFromSeedDerefsContext(key_type))
    /\ UNCHANGED <<pk, sig, signer, os_rng, threads>>

\* a second call of SecretKey::from_seed with the arguments of the first,
\* made after it in whatever state the random source and the static are by
\* then; the action returns the key of each call and the public key of each
FromSeedAgain ==
    /\ last.op = "SecretKey::from_seed"
    /\ LET first  == sk
           second == SecretKeyFromSeed(last.arg[1], last.arg[2])
       IN  last' = Call("SecretKey::from_seed twice", last.arg,
                        [first |-> first, second |-> second,
                         first_public |-> SecretKeyPublicKey(first),
                         second_public |-> SecretKeyPublicKey(second)])
    /\ Deref(SecretKeyFromSeedDerefsContext(last.arg[1]) \/ SecretKeyDerefsContext(sk))
    /\ UNCHANGED <<sk, pk, sig, signer, os_rng, threads>>

\* the operating system's random source moves on
OsRngStep ==
    /\ ~Spent
    /\ os_rng' \in TailBytes \ {os_rng}
    /\ UNCHANGED <<sk, pk, sig, signer, last, SECP256K1, threads>>

ParseSecretKey(value) ==
    /\ Idle /\ ~Spent
    /\ LET r == SecretKeyFromStr(value)
       IN  /\ sk' = Filled(sk, r)
           /\ last' = Call("SecretKey::from_str", value, r)
    /\ UNCHANGED <<pk, sig, signer, os_rng, SECP256K1, threads>>

DerivePublicKey ==
    /\ sk # None
    /\ pk = None
    /\ LET r == SecretKeyPublicKey(sk)
       IN  /\ pk' = Filled(pk, r)
           /\ last' = Call("SecretKey::public_key", <<>>, r)
    /\ Deref(SecretKeyDerefsContext(sk))
    /\ UNCHANGED <<sk, sig, signer, os_rng, threads>>

Sign(data, salt) ==
    /\ sk # None
    /\ sig = None
    /\ LET r == SecretKeySign(sk, data, salt)
       IN  /\ sig' = Filled(sig, r)
           /\ last' = Call("SecretKey::sign", data, r)
    /\ Deref(SecretKeyDerefsContext(sk))
    /\ UNCHANGED <<sk, pk, signer, os_rng, threads>>

Verify(data) ==
    /\ sig # None
    /\ pk # None
    /\ last' = Call("Signature::verify", data, SignatureVerify(sig, data, pk))
    /\ Deref(SignatureVerifyDerefsContext(sig, pk))
    /\ UNCHANGED <<sk, pk, sig, signer, os_rng, threads>>

ParsePublicKey(value) ==
    /\ sk = None /\ pk = None /\ signer = NoSigner /\ ~Spent
    /\ LET r == PublicKeyFromStr(value)
       IN  /\ pk' = Filled(pk, r)
           /\ last' = Call("PublicKey::from_str", value, r)
    /\ UNCHANGED <<sk, sig, signer, os_rng, SECP256K1, threads>>

DecodePublicKey(buf) ==
    /\ sk = None /\ pk = None /\ signer = NoSigner /\ ~Spent
    /\ LET r == TryFromSlice(PublicKeyDeserialize(buf))
       IN  /\ pk' = Filled(pk, r)
           /\ last' = Call("PublicKey::try_from_slice", buf, r)
    /\ UNCHANGED <<sk, sig, signer, os_rng, SECP256K1, threads>>

ParseSignature(value) ==
    /\ sk = None /\ sig = None /\ signer = NoSigner /\ ~Spent
    /\ LET r == SignatureFromStr(value)
       IN  /\ sig' = Filled(sig, r)
           /\ last' = Call("Signature::from_str", value, r)
    /\ UNCHANGED <<sk, pk, signer, os_rng, SECP256K1, threads>>

DecodeSignature(buf) ==
    /\ sk = None /\ sig = None /\ signer = NoSigner /\ ~Spent
    /\ LET r == TryFromSlice(SignatureDeserialize(buf))
       IN  /\ sig' = Filled(sig, r)
           /\ last' = Call("Signature::try_from_slice", buf, r)
    /\ UNCHANGED <<sk, pk, signer, os_rng, SECP256K1, threads>>

FromParts(signature_type, signature_data) ==
    /\ sk = None /\ sig = None /\ signer = NoSigner /\ ~Spent
    /\ LET r == SignatureFromParts(signature_type, signature_data)
       IN  /\ sig' = Filled(sig, r)
           /\ last' = Call("Signature::from_parts", <<signature_type, signature_data>>, r)
    /\ UNCHANGED <<sk, pk, signer, os_rng, SECP256K1, threads>>

FormatPublicKey ==
    /\ pk # None
    /\ last' = Call("PublicKey::to_string", <<>>, PublicKeyToString(pk))
    /\ UNCHANGED <<sk, pk, sig, signer, os_rng, SECP256K1, threads>>

EncodePublicKey ==
    /\ pk # None
    /\ last' = Call("PublicKey::try_to_vec", <<>>, PublicKeySerialize(pk))
    /\ UNCHANGED <<sk, pk, sig, signer, os_rng, SECP256K1, threads>>

FormatSecretKey ==
    /\ sk # None
    /\ last' = Call("SecretKey::to_string", <<>>, SecretKeyToString(sk))
    /\ UNCHANGED <<sk, pk, sig, signer, os_rng, SECP256K1, threads>>

FormatSignature ==
    /\ sig # None
    /\ last' = Call("Signature::to_string", <<>>, SignatureToString(sig))
    /\ UNCHANGED <<sk, pk, sig, signer, os_rng, SECP256K1, threads>>

EncodeSignature ==
    /\ sig # None
    /\ last' = Call("Signature::try_to_vec", <<>>, SignatureSerialize(sig))
    /\ UNCHANGED <<sk, pk, sig, signer, os_rng, SECP256K1, threads>>

\* the binary encoding of the secret key is asked for
EncodeSecretKey ==
    /\ sk # None
    /\ last' = Call("SecretKey::try_to_vec", <<>>, BorshTryToVec("SecretKey", sk))
    /\ UNCHANGED <<sk, pk, sig, signer, os_rng, SECP256K1, threads>>

\* KeyType::try_from and KeyType::from_str are functions of their argument
\* alone; they are called before any key is built
ConvertKeyType(value) ==
    /\ Idle /\ ~Spent
    /\ last' = Call("KeyType::try_from", value, KeyTypeTryFrom(value))
    /\ UNCHANGED <<sk, pk, sig, signer, os_rng, SECP256K1, threads>>

ParseKeyType(value) ==
    /\ Idle /\ ~Spent
    /\ last' = Call("KeyType::from_str", value, KeyTypeFromStr(value))
    /\ UNCHANGED <<sk, pk, sig, signer, os_rng, SECP256K1, threads>>

\* Secp256K1Signature::from(array).check_signature_values(reject_upper)
CheckSignatureValues(signature, reject_upper) ==
    /\ Idle /\ ~Spent
    /\ last' = Call("Secp256K1Signature::check_signature_values",
                    <<signature, reject_upper>>,
                    Ok(check_signature_values(signature, reject_upper)))
    /\ UNCHANGED <<sk, pk, sig, signer, os_rng, SECP256K1, threads>>

\* Secp256K1Signature::from(array).recover(msg)
Recover(signature, msg) ==
    /\ Idle /\ ~Spent
    /\ last' = Call("Secp256K1Signature::recover", <<signature, msg>>,
                    Secp256K1SignatureRecover(signature, msg))
    /\ Deref(Secp256K1SignatureRecoverDerefsContext(signature, msg))
    /\ UNCHANGED <<sk, pk, sig, signer, os_rng, threads>>

\* KeyFile::from_file
LoadKeyFile(content) ==
    /\ Idle /\ ~Spent
    /\ last' = Call("KeyFile::from_file", content, KeyFileFromFile(content))
    /\ UNCHANGED <<sk, pk, sig, signer, os_rng, SECP256K1, threads>>

\* InMemorySigner::from_file
SignerFromFile(content) ==
    /\ Idle /\ ~Spent
    /\ last' = Call("InMemorySigner::from_file", content, InMemorySignerFromFile(content))
    /\ signer' = Filled(signer, last'.ret)
    /\ UNCHANGED <<sk, pk, sig, os_rng, SECP256K1, threads>>

\* InMemorySigner::from_seed
SignerFromSeed(account_id, key_type, seed) ==
    /\ Idle /\ ~Spent
    /\ LET r == InMemorySignerFromSeed(account_id, key_type, seed)
       IN  /\ signer' = Filled(signer, r)
           /\ last' = Call("InMemorySigner::from_seed", <<account_id, key_type, seed>>, r)
    /\ Deref(SecretKeyFromSeedDerefsContext(key_type))
    /\ UNCHANGED <<sk, pk, sig, os_rng, threads>>

\* InMemorySigner::from_random
SignerFromRandom(account_id, key_type) ==
    /\ Idle /\ ~Spent
    /\ LET r == InMemorySignerFromRandom(account_id, key_type, <<os_rng>>)
       IN  /\ signer' = Filled(signer, r)
           /\ last' = Call("InMemorySigner::from_random", <<account_id, key_type>>, r)
    /\ os_rng' \in TailBytes
    /\ Deref(SecretKeyDerefsContext(SecretKeyFromRandom(key_type, <<os_rng>>)))
    /\ UNCHANGED <<sk, pk, sig, threads>>

\* InMemorySigner::from_secret_key: the secret key moves into the signer
SignerFromSecretKey(account_id) ==
    /\ sk # None /\ pk = None /\ sig = None /\ signer = NoSigner
    /\ LET r == InMemorySignerFromSecretKey(account_id, sk)
       IN  /\ signer' = Filled(signer, r)
           /\ last' = Call("InMemorySigner::from_secret_key", <<account_id, sk>>, r)
    /\ sk' = None
    /\ Deref(SecretKeyDerefsContext(sk))
    /\ UNCHANGED <<pk, sig, os_rng, threads>>

\* Signer::compute_vrf_with_proof
ComputeVrf(data) ==
    /\ signer # NoSigner
    /\ last' = Call("InMemorySigner::compute_vrf_with_proof", data,
                    InMemorySignerComputeVrfWithProof(signer, data))
    /\ UNCHANGED <<sk, pk, sig, signer, os_rng, SECP256K1, threads>>

\* SecretKey::sign_with_seed
SignWithSeed(data, seed) ==
    /\ sk # None /\ pk = None /\ sig = None
    /\ last' = Call("SecretKey::sign_with_seed", <<data, seed>>,
                    SecretKeySignWithSeed(sk, data, seed))
    /\ UNCHANGED <<sk, pk, sig, signer, os_rng, SECP256K1, threads>>

\* SecretKey::unwrap_as_ed25519, SecretKey::unwrap_as_falcon512
UnwrapSecretKey(key_type) ==
    /\ sk # None /\ pk = None /\ sig = None
    /\ last' = IF key_type = "ED25519"
               THEN Call("SecretKey::unwrap_as_ed25519", <<>>, SecretKeyUnwrapAsEd25519(sk))
               ELSE Call("SecretKey::unwrap_as_falcon512", <<>>, SecretKeyUnwrapAsFalcon512(sk))
    /\ UNCHANGED <<sk, pk, sig, signer, os_rng, SECP256K1, threads>>

\* PublicKey::unwrap_as_ed25519, PublicKey::unwrap_as_falcon512
UnwrapPublicKey(key_type) ==
    /\ pk # None /\ sk = None /\ sig = None
    /\ last' = IF key_type = "ED25519"
               THEN Call("PublicKey::unwrap_as_ed25519", <<>>, PublicKeyUnwrapAsEd25519(pk))
               ELSE Call("PublicKey::unwrap_as_falcon512", <<>>, PublicKeyUnwrapAsFalcon512(pk))
    /\ UNCHANGED <<sk, pk, sig, signer, os_rng, SECP256K1, threads>>

EmptyPublicKey(key_type) ==
    /\ sk = None /\ pk = None /\ signer = NoSigner /\ ~Spent
    /\ pk' = PublicKeyEmpty(key_type)
    /\ last' = Call("PublicKey::empty", key_type, Ok(PublicKeyEmpty(key_type)))
    /\ UNCHANGED <<sk, sig, signer, os_rng, SECP256K1, threads>>

PublicKeyLength ==
    /\ pk # None
    /\ last' = Call("PublicKey::len", <<>>, PublicKeyLen(pk))
    /\ UNCHANGED <<sk, pk, sig, signer, os_rng, SECP256K1, threads>>

\* ==  on two secret keys
CompareSecretKeys(other) ==
    /\ sk # None /\ pk = None /\ sig = None
    /\ last' = Call("SecretKey::eq", other, SecretKeyEq(sk, other))
    /\ UNCHANGED <<sk, pk, sig, signer, os_rng, SECP256K1, threads>>

\* ==  on two public keys
ComparePublicKeys(other) ==
    /\ pk # None /\ sk = None /\ sig = None
    /\ last' = Call("PublicKey::eq", other, PublicKeyEq(pk, other))
    /\ UNCHANGED <<sk, pk, sig, signer, os_rng, SECP256K1, threads>>

HashPublicKey ==
    /\ pk # None /\ sk = None /\ sig = None
    /\ last' = Call("PublicKey::hash", <<>>, PublicKeyHash(pk))
    /\ UNCHANGED <<sk, pk, sig, signer, os_rng, SECP256K1, threads>>

\* BorshDeserialize::deserialize on a buffer that holds the encoding of the
\* public key and then rest
DeserializePublicKey(rest) ==
    /\ pk # None /\ sk = None /\ sig = None
    /\ last' = Call("PublicKey::deserialize",
                    [encoded |-> PublicKeySerialize(pk), rest |-> rest],
                    PublicKeyDeserialize(PublicKeySerialize(pk) \o rest))
    /\ UNCHANGED <<sk, pk, sig, signer, os_rng, SECP256K1, threads>>

\* BorshDeserialize::deserialize on a buffer that holds the encoding of the
\* signature and then rest
DeserializeSignature(rest) ==
    /\ sig # None /\ sk = None /\ pk = None
    /\ last' = Call("Signature::deserialize",
                    [encoded |-> SignatureSerialize(sig), rest |-> rest],
                    SignatureDeserialize(SignatureSerialize(sig) \o rest))
    /\ UNCHANGED <<sk, pk, sig, signer, os_rng, SECP256K1, threads>>

\* a call of SecretKey::from_seed with the key type of the call just made and
\* another seed; it returns the key of that call and the key of this one
FromSeedAlso(other) ==
    /\ last.op = "SecretKey::from_seed"
    /\ last' = Call("SecretKey::from_seed, another seed",
                    <<last.arg[1], last.arg[2], other>>,
                    [first |-> sk, second |-> SecretKeyFromSeed(last.arg[1], other)])
    /\ Deref(SecretKeyFromSeedDerefsContext(last.arg[1]))
    /\ UNCHANGED <<sk, pk, sig, signer, os_rng, threads>>

EmptySignature(key_type) ==
    /\ sk = None /\ sig = None /\ signer = NoSigner /\ ~Spent
    /\ last' = Call("Signature::empty", key_type, SignatureEmpty(key_type))
    /\ sig' = Filled(sig, last'.ret)
    /\ UNCHANGED <<sk, pk, signer, os_rng, SECP256K1, threads>>

DefaultSignature ==
    /\ sk = None /\ sig = None /\ signer = NoSigner /\ ~Spent
    /\ last' = Call("Signature::default", <<>>, SignatureDefault)
    /\ sig' = Filled(sig, last'.ret)
    /\ UNCHANGED <<sk, pk, signer, os_rng, SECP256K1, threads>>

PublicKeyOfSeed(key_type, seed) ==
    /\ sk = None /\ pk = None /\ signer = NoSigner /\ ~Spent
    /\ last' = Call("PublicKey::from_seed", <<key_type, seed>>, PublicKeyFromSeed(key_type, seed))
    /\ pk' = Filled(pk, last'.ret)
    /\ UNCHANGED <<sk, sig, signer, os_rng, SECP256K1, threads>>

EmptySignerPublicKey ==
    /\ sk = None /\ pk = None /\ signer = NoSigner /\ ~Spent
    /\ pk' = EmptySigner_public_key
    /\ last' = Call("EmptySigner::public_key", <<>>, Ok(EmptySigner_public_key))
    /\ UNCHANGED <<sk, sig, signer, os_rng, SECP256K1, threads>>

EmptySignerSign(data) ==
    /\ sk = None /\ sig = None /\ signer = NoSigner /\ ~Spent
    /\ last' = Call("EmptySigner::sign", data, EmptySigner_sign(data))
    /\ sig' = Filled(sig, last'.ret)
    /\ UNCHANGED <<sk, pk, signer, os_rng, SECP256K1, threads>>

\* Signer::sign for InMemorySigner: the signer's secret key signs
InMemorySignerSign(data, salt) ==
    /\ signer # NoSigner
    /\ sig = None
    /\ last' = Call("InMemorySigner::sign", data, SecretKeySign(signer.secret_key, data, salt))
    /\ sig' = Filled(sig, last'.ret)
    /\ Deref(SecretKeyDerefsContext(signer.secret_key))
    /\ UNCHANGED <<sk, pk, signer, os_rng, threads>>

\* Signer::verify, the trait's default, for InMemorySigner: the signature is
\* verified against a clone of the signer's public key
SignerVerify(data) ==
    /\ signer # NoSigner
    /\ sig # None
    /\ last' = Call("Signer::verify", data, SignatureVerify(sig, data, signer.public_key))
    /\ Deref(SignatureVerifyDerefsContext(sig, signer.public_key))
    /\ UNCHANGED <<sk, pk, sig, signer, os_rng, threads>>

Next ==
    \/ \E t \in KeyTypes : FromRandom(t, os_rng)
    \/ \E t \in KeyTypes, s \in Seeds : FromSeed(t, s)
    \/ FromSeedAgain
    \/ OsRngStep
    \/ \E v \in SecretKeyTexts : ParseSecretKey(v)
    \/ DerivePublicKey
    \/ \E d \in DataPool, salt \in Salts : Sign(d, salt)
    \/ \E d \in DataPool : Verify(d)
    \/ \E v \in PublicKeyTexts : ParsePublicKey(v)
    \/ \E b \in PublicKeyBuffers : DecodePublicKey(b)
    \/ \E v \in SignatureTexts : ParseSignature(v)
    \/ \E b \in SignatureBuffers : DecodeSignature(b)
    \/ \E p \in SignatureParts : FromParts(p[1], p[2])
    \/ FormatPublicKey
    \/ EncodePublicKey
    \/ FormatSecretKey
    \/ FormatSignature
    \/ EncodeSignature
    \/ EncodeSecretKey
    \/ \E b \in 0..255 : ConvertKeyType(b)
    \/ \E v \in KeyTypeTexts : ParseKeyType(v)
    \/ \E c \in KeyFileContents : LoadKeyFile(c)
    \/ \E c \in KeyFileContents : SignerFromFile(c)
    \/ \E a \in AccountIds, t \in KeyTypes, s \in Seeds : SignerFromSeed(a, t, s)
    \/ \E a \in AccountIds, t \in KeyTypes : SignerFromRandom(a, t)
    \/ \E a \in AccountIds : SignerFromSecretKey(a)
    \/ \E d \in DataPool : ComputeVrf(d)
    \/ \E d \in DataPool, s \in Seeds : SignWithSeed(d, s)
    \/ \E t \in {"ED25519", "FALCON512"} : UnwrapSecretKey(t)
    \/ \E t \in {"ED25519", "FALCON512"} : UnwrapPublicKey(t)
    \/ \E g \in Secp256K1Signatures, u \in BOOLEAN : CheckSignatureValues(g, u)
    \/ \E g \in Secp256K1Signatures, d \in {q \in DataPool : Len(q) = 32} : Recover(g, d)
    \/ \E t \in KeyTypes : EmptyPublicKey(t)
    \/ PublicKeyLength
    \/ \E k \in DecodedSecretKeys : CompareSecretKeys(k)
    \/ \E k \in DecodedPublicKeys : ComparePublicKeys(k)
    \/ HashPublicKey
    \/ \E b \in StreamRests : DeserializePublicKey(b)
    \/ \E b \in StreamRests : DeserializeSignature(b)
    \/ \E s \in SeedVariants : FromSeedAlso(s)
    \/ \E t \in KeyTypes : EmptySignature(t)
    \/ DefaultSignature
    \/ \E t \in KeyTypes, s \in Seeds : PublicKeyOfSeed(t, s)
    \/ EmptySignerPublicKey
    \/ \E d \in DataPool : EmptySignerSign(d)
    \/ \E d \in DataPool, salt \in Salts : InMemorySignerSign(d, salt)
    \/ \E d \in DataPool : SignerVerify(d)

Spec == Init /\ [][Next]_vars

-----------------------------------------------------------------------------
(* The process-wide SECP256K1 context under threads.  The static is a       *)
(* once_cell::sync::Lazy: a state word (INCOMPLETE, RUNNING, COMPLETE) and  *)
(* a slot for the context.  Every operation on a SECP256K1 value            *)
(* dereferences the static first, which forces the cell.  A thread's steps  *)
(* are the loads, the compare-exchange and the stores of that force, one    *)
(* at a time, so that the threads interleave between any two of them.       *)

Threads == 1..NumThreads

\* the operations that dereference the static: SecretKey::sign,
\* Signature::verify, Secp256K1Signature::recover, SecretKey::public_key and
\* SecretKey::from_seed
Secp256k1Ops == <<"sign", "verify", "recover", "public_key", "from_seed">>

\* the operations are dealt out to the threads in turn, so that every one of
\* them is some thread's; a thread runs any of its operations, again and
\* again
ThreadOps(t) ==
    LET k == IF NumThreads < Len(Secp256k1Ops) THEN NumThreads ELSE Len(Secp256k1Ops)
    IN  {Secp256k1Ops[j] : j \in {i \in 1..Len(Secp256k1Ops) : i % k = t % k}}

\* a compare-exchange that stores whatever the word holds
CompareExchangeBlind(current, expected, new) ==
    [ok |-> TRUE, word |-> new]

\* AtomicPtr::compare_exchange on the state word: stores new only when the
\* word still is the expected one, and tells what it found otherwise
CompareExchange(current, expected, new) ==
    IF current = expected THEN [ok |-> TRUE, word |-> new]
    ELSE [ok |-> FALSE, word |-> current]

At(t, pc) == threads[t].pc = pc

Goto(t, pc) == [threads EXCEPT ![t].pc = pc]

\* a thread enters one of the operations on a SECP256K1 value
ThreadCall(t, op) ==
    /\ At(t, "idle")
    /\ threads' = [threads EXCEPT ![t].pc = "get", ![t].op = op]
    /\ UNCHANGED <<sk, pk, sig, signer, os_rng, last, SECP256K1>>

\* OnceCell::get: the fast path, taken when the cell is seen COMPLETE
ThreadGet(t) ==
    /\ At(t, "get")
    /\ threads' = Goto(t, IF SECP256K1.state = "COMPLETE" THEN "read" ELSE "load")
    /\ UNCHANGED <<sk, pk, sig, signer, os_rng, last, SECP256K1>>

\* initialize_or_wait: load the state word
ThreadLoad(t) ==
    /\ At(t, "load")
    /\ threads' = [threads EXCEPT ![t].pc = "match", ![t].curr = SECP256K1.state]
    /\ UNCHANGED <<sk, pk, sig, signer, os_rng, last, SECP256K1>>

\* initialize_or_wait: the loaded word is COMPLETE, return
ThreadMatchComplete(t) ==
    /\ At(t, "match")
    /\ threads[t].curr = "COMPLETE"
    /\ threads' = Goto(t, "read")
    /\ UNCHANGED <<sk, pk, sig, signer, os_rng, last, SECP256K1>>

\* initialize_or_wait: the loaded word is INCOMPLETE, try to take the cell;
\* the thread that wins runs the initialiser, one that loses looks again
ThreadMatchIncomplete(t) ==
    /\ At(t, "match")
    /\ threads[t].curr = "INCOMPLETE"
    /\ LET exchange == CompareExchange(SECP256K1.state, threads[t].curr, "RUNNING")
       IN  /\ SECP256K1' = [SECP256K1 EXCEPT !.state = exchange.word]
           /\ threads' = IF exchange.ok THEN Goto(t, "init")
                         ELSE [threads EXCEPT ![t].curr = exchange.word]
    /\ UNCHANGED <<sk, pk, sig, signer, os_rng, last>>

\* initialize_or_wait: the loaded word is RUNNING, wait for the initialiser
ThreadMatchRunning(t) ==
    /\ At(t, "match")
    /\ threads[t].curr = "RUNNING"
    /\ threads' = Goto(t, "wait")
    /\ UNCHANGED <<sk, pk, sig, signer, os_rng, last, SECP256K1>>

\* wait: parked until the word is not the one waited on, then load it again
ThreadWake(t) ==
    /\ At(t, "wait")
    /\ SECP256K1.state # threads[t].curr
    /\ threads' = [threads EXCEPT ![t].pc = "match", ![t].curr = SECP256K1.state]
    /\ UNCHANGED <<sk, pk, sig, signer, os_rng, last, SECP256K1>>

\* the initialiser, secp256k1::Secp256k1::new, runs in the thread
ThreadInit(t) ==
    /\ At(t, "init")
    /\ SECP256K1' = [SECP256K1 EXCEPT !.inits = @ + 1]
    /\ threads' = Goto(t, "store")
    /\ UNCHANGED <<sk, pk, sig, signer, os_rng, last>>

\* the context is written into the cell's slot
ThreadStore(t) ==
    /\ At(t, "store")
    /\ SECP256K1' = [SECP256K1 EXCEPT !.value = "context", !.writes = @ + 1]
    /\ threads' = Goto(t, "publish")
    /\ UNCHANGED <<sk, pk, sig, signer, os_rng, last>>

\* Guard::drop: the word becomes COMPLETE and the waiters are woken
ThreadPublish(t) ==
    /\ At(t, "publish")
    /\ SECP256K1' = [SECP256K1 EXCEPT !.state = "COMPLETE"]
    /\ threads' = Goto(t, "read")
    /\ UNCHANGED <<sk, pk, sig, signer, os_rng, last>>

\* get_unchecked: the operation reads the context from the slot and runs
ThreadRead(t) ==
    /\ At(t, "read")
    /\ threads' = [threads EXCEPT ![t].pc = "idle", ![t].op = "none",
                                  ![t].curr = "none", ![t].seen = SECP256K1.value]
    /\ UNCHANGED <<sk, pk, sig, signer, os_rng, last, SECP256K1>>

ThreadsNext ==
    \/ \E t \in Threads : \E op \in ThreadOps(t) : ThreadCall(t, op)
    \/ \E t \in Threads : ThreadGet(t)
    \/ \E t \in Threads : ThreadLoad(t)
    \/ \E t \in Threads : ThreadMatchComplete(t)
    \/ \E t \in Threads : ThreadMatchIncomplete(t)
    \/ \E t \in Threads : ThreadMatchRunning(t)
    \/ \E t \in Threads : ThreadWake(t)
    \/ \E t \in Threads : ThreadInit(t)
    \/ \E t \in Threads : ThreadStore(t)
    \/ \E t \in Threads : ThreadPublish(t)
    \/ \E t \in Threads : ThreadRead(t)

ThreadsSpec == Init /\ [][ThreadsNext]_vars

-----------------------------------------------------------------------------
(* Properties.                                                               *)

Kinds == {"PublicKey", "SecretKey", "Signature"}

\* the number of bytes a base58 payload stands for, whatever the buffer
DecodedLength(key_data) == Bs58DecodeInto(key_data, Len(key_data))

\* the number a string of decimal digits with no leading zero denotes, -1
\* for any other string
RECURSIVE DecimalValue(_)
DecimalValue(s) ==
    IF Len(s) = 0 \/ \E i \in 1..Len(s) : s[i] \notin 48..57 THEN -1
    ELSE IF Len(s) > 1 /\ s[1] = 48 THEN -1
    ELSE IF Len(s) = 1 THEN s[1] - 48
    ELSE 10 * DecimalValue(SubSeq(s, 1, Len(s) - 1)) + (s[Len(s)] - 48)

\* the secret keys from_random and from_seed produce
GeneratedKeys ==
    {SecretKeyFromRandom(t, <<e>>) : t \in KeyTypes, e \in TailBytes}
        \cup {SecretKeyFromSeed(t, s) : t \in KeyTypes, s \in Seeds}

\* C1: Signature::verify returns false, and does not abort, whenever the
\* signature's key type differs from the public key's key type.
C1_MismatchedVerifyIsFalse ==
    (last.op = "Signature::verify" /\ sig.key_type # pk.key_type)
        => last.ret = Ok(FALSE)

C1_Witness ==
    /\ last.op = "Signature::verify"
    /\ sig.key_type = "FALCON512"
    /\ pk.key_type = "SECP256K1"
    /\ last.ret = Ok(FALSE)

\* C2: Signature::verify is total: whatever the signature, the data and the
\* public key, it returns a boolean and never aborts.
C2_VerifyIsTotal ==
    last.op = "Signature::verify" => last.ret \in {Ok(TRUE), Ok(FALSE)}

\* C3: for every PublicKey, SecretKey and Signature value k of any key type,
\* from_str(to_string(k)) is k.
C3_TextRoundTrip ==
    /\ last.op = "PublicKey::to_string" => PublicKeyFromStr(last.ret) = Ok(pk)
    /\ last.op = "SecretKey::to_string" =>
          LET r == SecretKeyFromStr(last.ret)
          IN  r = Ok(sk) /\ SecretKeyEq(r.val, sk)
    /\ last.op = "Signature::to_string" => SignatureFromStr(last.ret) = Ok(sig)

C3_Witness ==
    /\ last.op = "SecretKey::to_string"
    /\ sk.key_type = "ED25519"
    /\ sk \in GeneratedKeys
    /\ SecretKeyFromStr(last.ret) = Ok(sk)

\* C4: for every PublicKey, SecretKey and Signature value k of any key
\* type, the binary encoding of k exists, and decoding it gives k and
\* consumes the whole encoding.
C4_AllThreeTypes ==
    /\ last.op = "PublicKey::try_to_vec" =>
          BorshTryFromSlice("PublicKey", last.ret) = Ok(pk)
    /\ last.op = "Signature::try_to_vec" =>
          BorshTryFromSlice("Signature", last.ret) = Ok(sig)
    /\ last.op = "SecretKey::try_to_vec" =>
          /\ last.ret.tag = "Ok"
          /\ BorshTryFromSlice("SecretKey", last.ret.val) = Ok(sk)

\* C5: a signature made by a secret key that from_random or from_seed
\* produced verifies, over the signed data, against that key's public key.
C5_SignThenVerify ==
    ( /\ last.op = "Signature::verify"
      /\ sk \in GeneratedKeys
      /\ SecretKeyPublicKey(sk) = Ok(pk)
      /\ \E salt \in Salts : SecretKeySign(sk, last.arg, salt) = Ok(sig) )
        => last.ret = Ok(TRUE)

C5_Witness ==
    /\ last.op = "Signature::verify"
    /\ sk \in GeneratedKeys
    /\ sk.key_type = "SECP256K1"
    /\ Len(last.arg) = 32
    /\ SecretKeyPublicKey(sk) = Ok(pk)
    /\ SecretKeySign(sk, last.arg, 1) = Ok(sig)
    /\ last.ret = Ok(TRUE)

\* C6: every parsing or decoding operation (from_str of the three types, the
\* binary decoders, Signature::from_parts) returns a value or a typed error
\* and never aborts.
C6_DecodersNeverAbort ==
    last.op \in {"PublicKey::from_str", "SecretKey::from_str", "Signature::from_str",
                 "PublicKey::try_from_slice", "Signature::try_from_slice",
                 "Signature::from_parts"}
        => last.ret.tag \in {"Ok", "Err"}

\* C7: in the text codec a base58 payload that stands for a number of bytes
\* other than the fixed length, fewer or more, yields
\* InvalidLength{expected, received}.
C7_WrongLengthIsInvalidLength ==
    \A kind \in Kinds :
        last.op = kind \o "::from_str" =>
            LET s == split_key_type_data(last.arg)
                d == IF s.tag = "Ok" THEN DecodedLength(s.val.key_data) ELSE s
                n == IF s.tag = "Ok" THEN PayloadLength(kind, s.val.key_type) ELSE 0
            IN  (s.tag = "Ok" /\ d.tag = "Ok" /\ Len(d.val) # n)
                    => last.ret = InvalidLength(n, Len(d.val))

\* C8: Signature::from_parts yields InvalidLength for bytes that do not have
\* the fixed signature length of the key type, and for bytes of that length
\* a Signature whose key type is the one given.
C8_FromPartsChecksLength ==
    last.op = "Signature::from_parts" =>
        LET n == PayloadLength("Signature", last.arg[1])
        IN  IF Len(last.arg[2]) # n
            THEN last.ret = InvalidLength(n, Len(last.arg[2]))
            ELSE last.ret.tag = "Ok" /\ last.ret.val.key_type = last.arg[1]

\* C9: the binary decoders return an error, and do not abort, on a first byte
\* other than 0, 1, 2 (UnknownKeyType inside an InvalidData error) and on a
\* good first byte followed by fewer bytes than the fixed payload length.
C9_BinaryDecodeErrors ==
    \A kind \in BorshTypes :
        (last.op = kind \o "::try_from_slice" /\ Len(last.arg) > 0) =>
            LET b == last.arg[1]
            IN  /\ b \notin {0, 1, 2} =>
                      /\ last.ret.tag = "Err"
                      /\ last.ret.kind = "io::InvalidData"
                      /\ last.ret.error.kind = "UnknownKeyType"
                      /\ DecimalValue(last.ret.error.unknown_key_type) = b
                /\ \A t \in KeyTypes :
                      (b = KeyTypeDiscriminant(t)
                          /\ Len(last.arg) - 1 < PayloadLength(kind, t))
                          => last.ret.tag = "Err"

C9_Witness ==
    /\ last.op = "PublicKey::try_from_slice"
    /\ last.arg = <<0>>
    /\ last.ret.tag = "Err"

\* C10: KeyType::try_from maps 0, 1, 2 to ED25519, SECP256K1, FALCON512 and
\* every other byte to UnknownKeyType with the byte in decimal; the first
\* byte a binary encoder writes converts back to the value's key type; and
\* KeyType::from_str(to_string(t)) is t.
C10_DiscriminantBijection ==
    /\ last.op = "KeyType::try_from" =>
          CASE last.arg = 0 -> last.ret = Ok("ED25519")
            [] last.arg = 1 -> last.ret = Ok("SECP256K1")
            [] last.arg = 2 -> last.ret = Ok("FALCON512")
            [] OTHER -> /\ last.ret.tag = "Err"
                        /\ last.ret.kind = "UnknownKeyType"
                        /\ DecimalValue(last.ret.unknown_key_type) = last.arg
    /\ last.op = "PublicKey::try_to_vec" => KeyTypeTryFrom(last.ret[1]) = Ok(pk.key_type)
    /\ last.op = "Signature::try_to_vec" => KeyTypeTryFrom(last.ret[1]) = Ok(sig.key_type)
    /\ \A t \in KeyTypes :
          (last.op = "KeyType::from_str" /\ last.arg = KeyTypeToString(t))
              => last.ret = Ok(t)

C10_Witness ==
    /\ last.op = "KeyType::try_from"
    /\ last.arg = 255
    /\ last.ret = UnknownKeyType(<<50, 53, 53>>)

\* the ASCII-case variants of a text: every way of choosing, letter by
\* letter, the upper or the lower case
SameLetters(a, b) ==
    /\ Len(a) = Len(b)
    /\ \A i \in 1..Len(a) :
          \/ a[i] = b[i]
          \/ a[i] >= 65 /\ a[i] <= 90 /\ b[i] = a[i] + 32
          \/ b[i] >= 65 /\ b[i] <= 90 /\ a[i] = b[i] + 32

\* the key type whose name is an ASCII-case variant of the text, if any
NamedKeyTypes(value) == {t \in KeyTypes : SameLetters(value, KeyTypeToString(t))}

\* C11 (as the code has it): KeyType::from_str is case-insensitive: an
\* ASCII-case variant of a key type's name parses to that key type, and every
\* other text gives UnknownKeyType carrying the text in ASCII lower case
C11_FromStrCaseInsensitive ==
    last.op = "KeyType::from_str" =>
        IF NamedKeyTypes(last.arg) # {}
        THEN \E t \in NamedKeyTypes(last.arg) : last.ret = Ok(t)
        ELSE /\ last.ret.tag = "Err"
             /\ last.ret.kind = "UnknownKeyType"
             /\ SameLetters(last.ret.unknown_key_type, last.arg)
             /\ \A i \in 1..Len(last.arg) :
                   ~(last.ret.unknown_key_type[i] >= 65 /\ last.ret.unknown_key_type[i] <= 90)

\* a text with a capital letter that names no key type was refused
C11_Witness ==
    /\ last.op = "KeyType::from_str"
    /\ last.arg = <<82, 115, 97>>
    /\ last.ret.tag = "Err"

\* C11 (as stated): the error carries the text as it was given
C11_ErrorCarriesInput ==
    last.op = "KeyType::from_str" =>
        IF NamedKeyTypes(last.arg) # {}
        THEN \E t \in NamedKeyTypes(last.arg) : last.ret = Ok(t)
        ELSE last.ret = UnknownKeyType(last.arg)

\* the canonical text form of a value of a kind: the lowercase name of its key
\* type, one colon, and the base58 of its fixed-size payload
Canonical(text, kind, k) ==
    LET colons == {i \in 1..Len(text) : text[i] = Colon}
    IN  /\ Cardinality(colons) = 1
        /\ LET idx    == CHOOSE i \in colons : TRUE
               prefix == SubSeq(text, 1, idx - 1)
               data   == SubSeq(text, idx + 1, Len(text))
           IN  /\ \A i \in 1..Len(prefix) : ~(prefix[i] >= 65 /\ prefix[i] <= 90)
               /\ KeyTypeFromStr(prefix) = Ok(k.key_type)
               /\ Len(k.data) = PayloadLength(kind, k.key_type)
               /\ data = Bs58Encode(k.data)
               /\ \A i \in 1..Len(data) : \E j \in 1..58 : Bs58Alphabet[j] = data[i]

\* C12: the text encoding of every PublicKey, SecretKey and Signature is the
\* lowercase name of its key type, exactly one colon and the base58 of its
\* fixed-size payload; the form without a prefix is never written.
C12_PrefixAlwaysEmitted ==
    /\ last.op = "PublicKey::to_string" => Canonical(last.ret, "PublicKey", pk)
    /\ last.op = "SecretKey::to_string" => Canonical(last.ret, "SecretKey", sk)
    /\ last.op = "Signature::to_string" => Canonical(last.ret, "Signature", sig)

\* an ED25519 public key, the one type with a form without a prefix, was
\* written
C12_Witness ==
    /\ last.op = "PublicKey::to_string"
    /\ pk.key_type = "ED25519"
    /\ FindColon(last.ret) = Len(KeyTypeToString("ED25519")) + 1

TextDecoders == {"PublicKey::from_str", "SecretKey::from_str", "Signature::from_str"}

\* the decoder of the named operation
FromStr(op, value) ==
    CASE op = "PublicKey::from_str" -> PublicKeyFromStr(value)
      [] op = "SecretKey::from_str" -> SecretKeyFromStr(value)
      [] op = "Signature::from_str" -> SignatureFromStr(value)

\* C13 (as the code has it): each of the three text decoders reads a text
\* without a colon exactly as it reads the same text after "ed25519:", so the
\* form without a prefix gives ED25519 public keys, ED25519 secret keys and
\* ED25519 signatures, and never a SECP256K1 or FALCON512 value.
C13_LegacyFormIsEd25519 ==
    (last.op \in TextDecoders /\ FindColon(last.arg) = 0) =>
        /\ last.ret = FromStr(last.op, KeyTypeToString("ED25519") \o <<Colon>> \o last.arg)
        /\ last.ret.tag = "Ok" => last.ret.val.key_type = "ED25519"

\* the SecretKey decoder accepted a text without a colon
C13_Witness ==
    /\ last.op = "SecretKey::from_str"
    /\ FindColon(last.arg) = 0
    /\ last.ret.tag = "Ok"
    /\ sk.key_type = "ED25519"

\* C13 (as stated): a text without a colon is never accepted by the SecretKey
\* decoder, and never decodes to a SECP256K1 or FALCON512 value
C13_LegacyFormOnlyPublicKeyAndSignature ==
    (last.op \in TextDecoders /\ FindColon(last.arg) = 0) =>
        /\ last.op = "SecretKey::from_str" => last.ret.tag # "Ok"
        /\ last.ret.tag = "Ok" => last.ret.val.key_type = "ED25519"

\* the seed "test" of the repository's tests
TestSeed == <<116, 101, 115, 116>>

\* the secret keys the repository's tests expect of from_seed for that seed:
\* "secp256k1:X4ET...ynGx" in test_json_serialize_secp256k1 and
\* "ed25519:3KyU...d5k3" in test_json_serialize_ed25519, where the key is
\* compared with the parsed text (by SecretKey's PartialEq)
TestSecp256k1SecretKey ==
    <<115, 101, 99, 112, 50, 53, 54, 107, 49, 58, 88, 52, 69, 84, 70, 75,
      116, 81, 107, 83, 71, 86, 111, 90, 69, 110, 107, 110, 55, 98, 90, 51,
      76, 121, 97, 106, 74, 97, 75, 50, 98, 51, 101, 119, 101, 88, 97, 75,
      109, 121, 110, 71, 120>>

TestEd25519SecretKey ==
    <<101, 100, 50, 53, 53, 49, 57, 58, 51, 75, 121, 85, 117, 99, 104, 56,
      112, 89, 80, 52, 55, 107, 114, 66, 113, 52, 68, 111, 115, 70, 69, 86,
      66, 77, 82, 53, 119, 68, 84, 77, 81, 56, 65, 84, 104, 122, 77, 56,
      107, 65, 69, 99, 66, 81, 69, 112, 115, 80, 100, 89, 84, 90, 50, 70,
      80, 88, 53, 90, 110, 83, 111, 76, 114, 101, 114, 106, 119, 103, 54,
      54, 104, 119, 119, 74, 97, 87, 49, 119, 72, 122, 112, 114, 100, 53,
      107, 51>>

RECURSIVE Borrows(_, _, _)
Borrows(a, b, i) ==
    IF i > Len(a) THEN FALSE
    ELSE a[i] - b[i] - (IF Borrows(a, b, i + 1) THEN 1 ELSE 0) < 0

Below(a, b) == Borrows(a, b, 1)

\* floor(a / 2) + 1 of a big-endian number
HalfPlusOne(a) ==
    LET half == [i \in 1..Len(a) |->
                    (a[i] \div 2) + (IF i > 1 THEN (a[i - 1] % 2) * 128 ELSE 0)]
        carry(i) == \A j \in (i + 1)..Len(a) : half[j] = 255
    IN  [i \in 1..Len(a) |-> IF carry(i) THEN (half[i] + 1) % 256 ELSE half[i]]

\* the order of the secp256k1 group,
\* FFFFFFFF FFFFFFFF FFFFFFFF FFFFFFFE BAAEDCE6 AF48A03B BFD25E8C D0364141
GroupOrder ==
    <<255, 255, 255, 255, 255, 255, 255, 255, 255, 255, 255, 255, 255, 255, 255, 254,
      186, 174, 220, 230, 175, 72, 160, 59, 191, 210, 94, 140, 208, 54, 65, 65>>

\* C15: check_signature_values(reject_upper) is true exactly when r < N and
\* s < N (reject_upper false) or s < N/2 + 1 (reject_upper true), r and s
\* being bytes 0..32 and 32..64 read big-endian; so a signature accepted
\* with reject_upper is accepted without it.
C15_CheckSignatureValues ==
    last.op = "Secp256K1Signature::check_signature_values" =>
        LET r == SubSeq(last.arg[1], 1, 32)
            s == SubSeq(last.arg[1], 33, 64)
            bound == IF last.arg[2] THEN HalfPlusOne(GroupOrder) ELSE GroupOrder
        IN  /\ last.ret = Ok(Below(r, GroupOrder) /\ Below(s, bound))
            /\ (last.arg[2] /\ last.ret = Ok(TRUE)) =>
                    check_signature_values(last.arg[1], FALSE)

\* a signature with r < N and s = N - 1, in the upper half, was refused with
\* reject_upper
C15_Witness ==
    /\ last.op = "Secp256K1Signature::check_signature_values"
    /\ last.arg[2] = TRUE
    /\ SubSeq(last.arg[1], 1, 32) = Buf(32, <<1>>)
    /\ SubSeq(last.arg[1], 33, 64) = [SECP256K1_N EXCEPT ![32] = 64]
    /\ last.ret = Ok(FALSE)
    /\ check_signature_values(last.arg[1], FALSE)

\* C16: recover never aborts: a 65-byte signature whose recovery id or
\* compact encoding is invalid gives InvalidData, and a success is a 64-byte
\* public key.
C16_RecoverNeverAborts ==
    last.op = "Secp256K1Signature::recover" =>
        /\ last.ret.tag # "Panic"
        /\ (~RecoveryIdValid(last.arg[1][65])
              \/ ~RecoverableSignatureValid(SubSeq(last.arg[1], 1, 64))) =>
                (last.ret.tag = "Err" /\ last.ret.kind = "InvalidData")
        /\ last.ret.tag = "Ok" => Len(last.ret.val) = SECP256K1_PUBLIC_KEY_LENGTH

\* C17: the public key of every InMemorySigner, whatever constructed it, is
\* the public key of its secret key.
C17_SignerKeysMatch ==
    signer # NoSigner => SecretKeyPublicKey(signer.secret_key) = Ok(signer.public_key)

\* C18: the trailing 32 bytes of every ED25519 secret key, whatever
\* constructed it, are the public key derived from its leading 32 bytes.
C18_Ed25519TrailingHalfIsPublicKey ==
    /\ sk.key_type = "ED25519" =>
          SubSeq(sk.data, SECRET_KEY_LENGTH + 1, KEYPAIR_LENGTH)
              = Ed25519PublicFromSecret(SubSeq(sk.data, 1, SECRET_KEY_LENGTH))
    /\ signer.secret_key.key_type = "ED25519" =>
          SubSeq(signer.secret_key.data, SECRET_KEY_LENGTH + 1, KEYPAIR_LENGTH)
              = Ed25519PublicFromSecret(SubSeq(signer.secret_key.data, 1, SECRET_KEY_LENGTH))

WrongVariantOps ==
    [op \in {"SecretKey::sign_with_seed", "SecretKey::unwrap_as_falcon512",
             "PublicKey::unwrap_as_falcon512"} |-> "FALCON512"]
    @@ [op \in {"SecretKey::unwrap_as_ed25519", "PublicKey::unwrap_as_ed25519",
                "InMemorySigner::compute_vrf_with_proof"} |-> "ED25519"]

\* the key type of the value the named operation was called on
Receiver(op) ==
    CASE op \in {"SecretKey::sign_with_seed", "SecretKey::unwrap_as_ed25519",
                 "SecretKey::unwrap_as_falcon512"} -> sk.key_type
      [] op \in {"PublicKey::unwrap_as_ed25519", "PublicKey::unwrap_as_falcon512"} -> pk.key_type
      [] op = "InMemorySigner::compute_vrf_with_proof" -> signer.secret_key.key_type

\* C19: sign_with_seed, unwrap_as_ed25519, unwrap_as_falcon512 and
\* compute_vrf_with_proof abort on a value of another variant than theirs
\* and return normally on a value of theirs.
C19_WrongVariantIsFatal ==
    last.op \in DOMAIN WrongVariantOps =>
        IF Receiver(last.op) = WrongVariantOps[last.op]
        THEN last.ret.tag = "Ok"
        ELSE last.ret.tag = "Panic"

\* sign_with_seed was called on an ED25519 key and aborted
C19_Witness ==
    /\ last.op = "SecretKey::sign_with_seed"
    /\ sk.key_type = "ED25519"
    /\ last.ret.tag = "Panic"

\* the members of a key file under the given names
Named(content, names) == {i \in 1..Len(content) : content[i][1] \in names}

\* the key file with private_key written as secret_key
Renamed(content) ==
    [i \in 1..Len(content) |->
        IF content[i][1] = "private_key" THEN <<"secret_key", content[i][2]>> ELSE content[i]]

\* C20: a key file with both secret_key and private_key fails with an
\* InvalidData error whose message has "duplicate field"; a key file with
\* private_key alone decodes to what it decodes to with secret_key.
C20_AliasExclusive ==
    last.op = "KeyFile::from_file" =>
        /\ (Named(last.arg, {"secret_key"}) # {} /\ Named(last.arg, {"private_key"}) # {}) =>
              /\ last.ret.tag = "Err"
              /\ last.ret.kind = "io::InvalidData"
              /\ last.ret.error[1] = "duplicate field"
        /\ (Named(last.arg, {"secret_key"}) = {} /\ Named(last.arg, {"private_key"}) # {}) =>
              last.ret = KeyFileFromFile(Renamed(last.arg))

\* a key file with both names was refused
C20_Witness ==
    /\ last.op = "KeyFile::from_file"
    /\ Named(last.arg, {"secret_key"}) # {}
    /\ Named(last.arg, {"private_key"}) # {}
    /\ last.ret.tag = "Err"
    /\ last.ret.error = <<"duplicate field", "secret_key">>

\* C21: PublicKey::empty(t) is the all-zero buffer of t's public-key size
\* tagged with t, and Signature::verify with it returns false, without
\* aborting, whatever the signature and the data.
C21_EmptyKeyNeverVerifies ==
    /\ last.op = "PublicKey::empty" =>
          /\ last.ret.val.key_type = last.arg
          /\ last.ret.val.data = Zeros(PayloadLength("PublicKey", last.arg))
    /\ (last.op = "Signature::verify" /\ pk = PublicKeyEmpty(pk.key_type)) =>
          last.ret = Ok(FALSE)

\* C22: the SECP256K1 context is initialised exactly once and never written
\* afterwards: however the threads that call sign, verify, public_key or
\* recover interleave, the initialiser runs at most once, the slot is written
\* at most once and before the cell is COMPLETE, and every operation reads
\* the same initialised context.
C22_ContextInitialisedOnce ==
    /\ SECP256K1.inits <= 1
    /\ SECP256K1.writes <= 1
    /\ SECP256K1.state = "COMPLETE" =>
          SECP256K1.value = "context" /\ SECP256K1.inits = 1 /\ SECP256K1.writes = 1
    /\ \A t \in Threads :
          /\ threads[t].seen \in {"none", "context"}
          /\ At(t, "read") => SECP256K1.value = "context"

\* two threads have read the context of a COMPLETE cell, and a thread
\* looked at the cell while the initialiser was running
C22_Witness ==
    /\ SECP256K1.state = "COMPLETE"
    /\ SECP256K1.inits = 1
    /\ \E t, u \in Threads :
          /\ t # u
          /\ threads[t].seen = "context"
          /\ threads[u].seen = "context"
    /\ \E v \in Threads : threads[v].curr = "RUNNING"

\* the text before the first colon, the whole text when it has none
BeforeColon(value) ==
    SubSeq(value, 1,
           CHOOSE n \in 0..Len(value) :
               /\ \A i \in 1..n : value[i] # Colon
               /\ n = Len(value) \/ value[n + 1] = Colon)

HasColon(value) == \E i \in 1..Len(value) : value[i] = Colon

\* the text after the first colon
AfterColon(value) == SubSeq(value, Len(BeforeColon(value)) + 2, Len(value))

\* C23: each of the three text decoders splits at the first colon.  The text
\* before it is read as the key type, and an unknown one is UnknownKeyType;
\* everything after it, later colons included, is the base58 payload (so a
\* payload with a colon is refused as data, not as a key type).  A text
\* without a colon is ED25519 with the whole text as the payload.
C23_SplitAtFirstColon ==
    last.op \in TextDecoders =>
        LET key_type == KeyTypeFromStr(BeforeColon(last.arg))
            payload == IF HasColon(last.arg) THEN AfterColon(last.arg) ELSE last.arg
            named == IF HasColon(last.arg) THEN key_type ELSE Ok("ED25519")
        IN  IF named.tag # "Ok" THEN last.ret = named
            ELSE /\ last.ret.tag = "Ok" =>
                      /\ last.ret.val.key_type = named.val
                      /\ Bs58Encode(last.ret.val.data) = payload
                 /\ last.ret.tag # "Ok" =>
                      last.ret.tag = "Err" /\ last.ret.kind # "UnknownKeyType"
                 /\ HasColon(payload) =>
                      last.ret.tag = "Err" /\ last.ret.kind = "InvalidData"

\* a text with a known key type before the first colon and a second colon
\* in what follows was refused for its payload, by the Signature decoder
C23_Witness ==
    /\ last.op = "Signature::from_str"
    /\ HasColon(last.arg)
    /\ KeyTypeFromStr(BeforeColon(last.arg)) = Ok("SECP256K1")
    /\ HasColon(AfterColon(last.arg))
    /\ last.ret.tag = "Err"
    /\ last.ret.kind = "InvalidData"

\* C24: the binary encoding of a PublicKey or a Signature is one discriminant
\* byte and then the raw payload of the type's fixed length, with no length
\* prefix: 1 + 32 and 1 + 64 bytes for ED25519, 1 + 64 and 1 + 65 for
\* SECP256K1, 1 + the scheme's sizes for FALCON512; PublicKey::len() is the
\* length of the key's encoding.
C24_BinaryLayout ==
    /\ last.op = "PublicKey::try_to_vec" =>
          /\ last.ret = <<KeyTypeDiscriminant(pk.key_type)>> \o pk.data
          /\ Len(last.ret) = 1 + PayloadLength("PublicKey", pk.key_type)
          /\ Len(last.ret) = PublicKeyLen(pk)
          /\ pk.key_type = "ED25519" => Len(last.ret) = 1 + 32
          /\ pk.key_type = "SECP256K1" => Len(last.ret) = 1 + 64
    /\ last.op = "Signature::try_to_vec" =>
          /\ last.ret = <<KeyTypeDiscriminant(sig.key_type)>> \o sig.data
          /\ Len(last.ret) = 1 + PayloadLength("Signature", sig.key_type)
          /\ sig.key_type = "ED25519" => Len(last.ret) = 1 + 64
          /\ sig.key_type = "SECP256K1" => Len(last.ret) = 1 + 65
    /\ last.op = "PublicKey::len" => last.ret = Len(PublicKeySerialize(pk))

\* a SECP256K1 signature made by sign was encoded into 66 bytes
C24_Witness ==
    /\ last.op = "Signature::try_to_vec"
    /\ sk.key_type = "SECP256K1"
    /\ sig.key_type = "SECP256K1"
    /\ Len(last.ret) = 66
    /\ last.ret[1] = 1

\* C25: two secret keys compare equal exactly when they are of the same key
\* type and their whole raw buffers are the same bytes, so that equal secret
\* keys have the same text and the same public_key().
C25_EqualityIsByteWise ==
    last.op = "SecretKey::eq" =>
        /\ last.ret = (sk.key_type = last.arg.key_type /\ sk.data = last.arg.data)
        /\ last.ret => /\ SecretKeyToString(sk) = SecretKeyToString(last.arg)
                       /\ SecretKeyPublicKey(sk) = SecretKeyPublicKey(last.arg)

\* C26: two public keys of different key types are never equal, two of the
\* same key type are equal exactly when their bytes are; a public key is
\* hashed as its discriminant byte 0, 1 or 2 followed by its bytes, so equal
\* keys hash alike.
C26_EqAndHashCarryTheTag ==
    /\ last.op = "PublicKey::eq" =>
          /\ pk.key_type # last.arg.key_type => ~last.ret
          /\ pk.key_type = last.arg.key_type => (last.ret <=> pk.data = last.arg.data)
          /\ last.ret => PublicKeyHash(pk) = PublicKeyHash(last.arg)
    /\ last.op = "PublicKey::hash" =>
          /\ Len(last.ret) = 1 + Len(pk.data)
          /\ last.ret[1] = KeyTypeDiscriminant(pk.key_type)
          /\ last.ret[1] \in {0, 1, 2}
          /\ SubSeq(last.ret, 2, Len(last.ret)) = pk.data

\* a SECP256K1 key was compared with another SECP256K1 key of other bytes
C26_Witness ==
    /\ last.op = "PublicKey::eq"
    /\ pk.key_type = "SECP256K1"
    /\ last.arg.key_type = "SECP256K1"
    /\ last.arg.data # pk.data
    /\ ~last.ret

\* a value of the given kind is well formed: its key type is one of the
\* three and its payload has that key type's fixed length
WellFormed(kind, value) ==
    /\ value.key_type \in KeyTypes
    /\ Len(value.data) = PayloadLength(kind, value.key_type)

\* C27: every PublicKey, SecretKey and Signature a caller holds, however it
\* was made (from_random, from_seed, text or binary decoding, from_parts,
\* public_key, sign, empty, a signer's constructors), has a payload of the
\* fixed length of the key type key_type() names; public_key() and sign()
\* return values of the secret key's key type.
C27_TagMatchesPayload ==
    /\ sk # None => WellFormed("SecretKey", [key_type |-> SecretKeyKeyType(sk), data |-> sk.data])
    /\ pk # None => WellFormed("PublicKey", [key_type |-> PublicKeyKeyType(pk), data |-> pk.data])
    /\ sig # None => WellFormed("Signature", [key_type |-> SignatureKeyType(sig), data |-> sig.data])
    /\ signer # NoSigner =>
          /\ WellFormed("SecretKey", signer.secret_key)
          /\ WellFormed("PublicKey", signer.public_key)
    /\ (last.op = "SecretKey::public_key" /\ last.ret.tag = "Ok") =>
          PublicKeyKeyType(last.ret.val) = SecretKeyKeyType(sk)
    /\ (last.op = "SecretKey::sign" /\ last.ret.tag = "Ok") =>
          SignatureKeyType(last.ret.val) = SecretKeyKeyType(sk)

\* a FALCON512 secret key has given its public key and signed
C27_Witness ==
    /\ last.op = "SecretKey::sign"
    /\ last.ret.tag = "Ok"
    /\ sk.key_type = "FALCON512"
    /\ pk.key_type = "FALCON512"
    /\ sig.key_type = "FALCON512"
    /\ Len(sig.data) = NEAR_FALCON512_SIG_SIZE

\* a is the beginning of b, or b of a, and the two differ
ProperPrefix(a, b) ==
    \/ Len(a) < Len(b) /\ SubSeq(b, 1, Len(a)) = a
    \/ Len(b) < Len(a) /\ SubSeq(a, 1, Len(b)) = b

\* C28: two different public keys, and two different signatures, have
\* different binary encodings, neither of which begins with the other, and
\* deserialising a buffer that holds an encoding and then more bytes returns
\* the encoded value and leaves exactly those bytes.
C28_EncodingIsPrefixFree ==
    /\ last.op = "PublicKey::try_to_vec" =>
          \A other \in DecodedPublicKeys :
              ~PublicKeyEq(other, pk) =>
                  /\ PublicKeySerialize(other) # last.ret
                  /\ ~ProperPrefix(PublicKeySerialize(other), last.ret)
    /\ last.op = "Signature::try_to_vec" =>
          \A other \in DecodedSignatures :
              other # sig =>
                  /\ SignatureSerialize(other) # last.ret
                  /\ ~ProperPrefix(SignatureSerialize(other), last.ret)
    /\ last.op = "PublicKey::deserialize" =>
          /\ last.ret.tag = "Ok"
          /\ last.ret.val = pk
          /\ last.ret.rest = last.arg.rest
    /\ last.op = "Signature::deserialize" =>
          /\ last.ret.tag = "Ok"
          /\ last.ret.val = sig
          /\ last.ret.rest = last.arg.rest

\* a FALCON512 public key was read from a buffer that goes on with the
\* encoding of a signature, which was left in the buffer
C28_Witness ==
    /\ last.op = "PublicKey::deserialize"
    /\ pk.key_type = "FALCON512"
    /\ Len(last.arg.rest) = 1 + SECP256K1_SIGNATURE_LENGTH
    /\ last.ret.tag = "Ok"
    /\ last.ret.val = pk
    /\ SignatureDeserialize(last.ret.rest).tag = "Ok"

\* the seed cut to 32 bytes, or followed by spaces up to 32 bytes
SpacePadded(seed) == SubSeq(seed \o [i \in 1..32 |-> 32], 1, 32)

\* C29: for ED25519 and SECP256K1, from_seed reads the seed through a 32-byte
\* buffer that holds the seed's first 32 bytes and then spaces, so two seeds
\* with the same buffer give the same key (and the ED25519 secret is that
\* buffer); for FALCON512 the key is generated from the seed bytes as they
\* are.
C29_SeedNormalisation ==
    last.op = "SecretKey::from_seed, another seed" =>
        LET key_type == last.arg[1]
            seed == last.arg[2]
            other == last.arg[3]
        IN  /\ (key_type \in {"ED25519", "SECP256K1"}
                    /\ SpacePadded(seed) = SpacePadded(other)) =>
                  last.ret.second = last.ret.first
            /\ key_type = "ED25519" =>
                  /\ SubSeq(last.ret.first.data, 1, SECRET_KEY_LENGTH) = SpacePadded(seed)
                  /\ SubSeq(last.ret.second.data, 1, SECRET_KEY_LENGTH) = SpacePadded(other)
            /\ key_type = "FALCON512" =>
                  /\ last.ret.first.data = falcon512_keypair_from_seed(seed)
                  /\ last.ret.second.data = falcon512_keypair_from_seed(other)

\* "test" and a seed of 33 bytes that begins with "test" and 28 spaces gave
\* the same ED25519 key
C29_Witness ==
    /\ last.op = "SecretKey::from_seed, another seed"
    /\ last.arg[1] = "ED25519"
    /\ last.arg[2] = <<116, 101, 115, 116>>
    /\ Len(last.arg[3]) = 33
    /\ last.ret.second = last.ret.first

\* C30: Signature::empty and PublicKey::from_seed are implemented for ED25519
\* and FALCON512 only.  For these, Signature::empty is the all-zero signature
\* of the key type's length (and Signature::default() is the ED25519 one),
\* and PublicKey::from_seed is the public key of SecretKey::from_seed with
\* the same arguments; for SECP256K1 both abort.  SecretKey::from_seed and
\* PublicKey::empty return a value for all three key types.
C30_EmptyAndFromSeedSupport ==
    /\ last.op = "Signature::empty" =>
          IF last.arg \in {"ED25519", "FALCON512"}
          THEN last.ret = Ok([key_type |-> last.arg,
                              data |-> Zeros(PayloadLength("Signature", last.arg))])
          ELSE last.ret.tag = "Panic"
    /\ last.op = "Signature::default" =>
          last.ret = Ok([key_type |-> "ED25519", data |-> Zeros(SIGNATURE_LENGTH)])
    /\ last.op = "EmptySigner::sign" =>
          last.ret = Ok([key_type |-> "ED25519", data |-> Zeros(SIGNATURE_LENGTH)])
    /\ last.op = "EmptySigner::public_key" =>
          last.ret = Ok([key_type |-> "ED25519", data |-> Zeros(PUBLIC_KEY_LENGTH)])
    /\ last.op = "PublicKey::from_seed" =>
          IF last.arg[1] \in {"ED25519", "FALCON512"}
          THEN last.ret = SecretKeyPublicKey(SecretKeyFromSeed(last.arg[1], last.arg[2]))
                  /\ last.ret.tag = "Ok"
          ELSE last.ret.tag = "Panic"
    /\ last.op = "SecretKey::from_seed" =>
          last.ret.tag = "Ok" /\ last.ret.val.key_type = last.arg[1]
    /\ last.op = "PublicKey::empty" =>
          last.ret.tag = "Ok" /\ last.ret.val.key_type = last.arg

\* Signature::empty was called for SECP256K1 and aborted
C30_Witness ==
    /\ last.op = "Signature::empty"
    /\ last.arg = "SECP256K1"
    /\ last.ret.tag = "Panic"
    /\ sig = None

====
